---- MODULE Spec2Model ----
(***************************************************************************)
(* Model of the decaf-ts/for-http REST mapping layer: the HttpStatement    *)
(* compiler, the AxiosHttpAdapter request builder (CRUD and prepared       *)
(* statements), HttpAdapter.url and the HttpPaginator.                     *)
(*                                                                         *)
(* Strings are TLA+ strings handled character by character with Len,       *)
(* SubSeq and \o. Literal values are tagged records (Num, Str, Arr).       *)
(***************************************************************************)
EXTENDS Integers, Sequences, FiniteSets, TLC

VARIABLES
    stack,      \* conditions under construction by the caller (fluent Condition builder)
    built,      \* the Query Descriptor in hand: status of build() and the query
    sent,       \* requests handed to the transport (client.request), in order
    ops,        \* history: ops[i] is the operation that issued sent[i]
    last,       \* outcome of the last operation as seen by the caller
    paginator,  \* the HttpPaginator: statement, size, _currentPage
    heap,       \* the args arrays, by reference
    calls,      \* the page() calls: where each stands, its page argument, its error
    response,   \* the response (or the rejection) the transport handed back last
    result,     \* what the last operation handed to its caller: a value or an error
    statement,  \* the Statement a caller sets selectors on before executing it
    history,    \* the selector calls made on the statement, in order
    observers,  \* RestService.observers: the registered observers, in order
    cache,      \* ServerEventConnector.cache: the connector of each URL, 0 for none
    connectors, \* the ServerEventConnector objects ever constructed: their fields
    dispatchers,\* the HttpDispatcher objects: initialized, listening, connector
    emitted,    \* the messages the server sent on open connections, in order
    delivered   \* per dispatcher, the messages its onEvent handler was called with

streamVars == <<cache, connectors, dispatchers, emitted, delivered>>

vars == <<stack, built, sent, ops, last, paginator, heap, calls, response, result,
          statement, history, observers, streamVars>>

(***************************************************************************)
(* Bounds                                                                  *)
(***************************************************************************)
MaxLeaves == 2          \* comparison leaves per Condition Tree
MaxOps == 2             \* single-record operations per run
MaxArgs == 2            \* positional args of a hand-made Query Descriptor
MaxCalls == 3           \* page() calls on one paginator
MaxOverlap == 2         \* overlapping page() calls on one paginator
MaxTokens == 2          \* words of an error message
MaxSetters == 4         \* selector calls on one statement
MaxParams == 3          \* entries of a named-params map
MaxPage == 2            \* largest page number asked for
MaxSize == 2            \* largest page size
MaxObservers == 4       \* observers a RestService is offered
MaxDispatchers == 3     \* HttpDispatcher objects
MaxConnectors == 3      \* ServerEventConnector objects ever constructed
MaxEvents == 2          \* messages the server sends

(***************************************************************************)
(* Strings                                                                 *)
(***************************************************************************)
Ch(s, i) == SubSeq(s, i, i)

LowerAlpha == "abcdefghijklmnopqrstuvwxyz"
UpperAlpha == "ABCDEFGHIJKLMNOPQRSTUVWXYZ"
Digits == "0123456789"

CharsOf(s) == {Ch(s, i) : i \in 1..Len(s)}

LowerSet == CharsOf(LowerAlpha)
UpperSet == CharsOf(UpperAlpha)
DigitSet == CharsOf(Digits)
AlnumSet == LowerSet \cup UpperSet \cup DigitSet
\* the regular expression class \w
WordSet == AlnumSet \cup {"_"}

UpperOf == [c \in LowerSet |-> Ch(UpperAlpha, CHOOSE i \in 1..26 : Ch(LowerAlpha, i) = c)]
LowerOf == [c \in UpperSet |-> Ch(LowerAlpha, CHOOSE i \in 1..26 : Ch(UpperAlpha, i) = c)]

IsLower(c) == c \in LowerSet
IsUpper(c) == c \in UpperSet
IsDigit(c) == c \in DigitSet
IsWord(c) == c \in WordSet

ToUpperCh(c) == IF c \in LowerSet THEN UpperOf[c] ELSE c
ToLowerCh(c) == IF c \in UpperSet THEN LowerOf[c] ELSE c

RECURSIVE IndexFrom(_, _, _)
IndexFrom(c, s, i) ==
    IF i > Len(s) THEN 0 ELSE IF Ch(s, i) = c THEN i ELSE IndexFrom(c, s, i + 1)

\* position of the first occurrence of the one-character string c in s, 0 when absent
IndexOf(c, s) == IndexFrom(c, s, 1)

RECURSIVE MapRange(_, _, _, _)
\* f(s, i), a string, for every position lo..hi of s, concatenated
MapRange(f(_, _), s, lo, hi) ==
    IF lo > hi THEN ""
    ELSE IF lo = hi THEN f(s, lo)
    ELSE LET mid == (lo + hi) \div 2
         IN MapRange(f, s, lo, mid) \o MapRange(f, s, mid + 1, hi)

MapStr(f(_, _), s, i) == MapRange(f, s, i, Len(s))

ToLowerCase(s) == LET f(t, i) == ToLowerCh(Ch(t, i)) IN MapStr(f, s, 1)

RECURSIVE NumToStr(_)
NumToStr(n) ==
    IF n < 10 THEN Ch(Digits, n + 1)
    ELSE NumToStr(n \div 10) \o Ch(Digits, (n % 10) + 1)

RECURSIVE JoinStr(_, _)
\* Array.prototype.join on an array of strings
JoinStr(ss, sep) ==
    IF Len(ss) = 0 THEN ""
    ELSE IF Len(ss) = 1 THEN ss[1]
    ELSE ss[1] \o sep \o JoinStr(Tail(ss), sep)

\* s starts with p at position i
StartsAt(s, p, i) == i + Len(p) - 1 <= Len(s) /\ SubSeq(s, i, i + Len(p) - 1) = p

RECURSIVE FindFrom(_, _, _)
\* position of the first occurrence of p in s at or after i, 0 when absent
FindFrom(s, p, i) ==
    IF i + Len(p) - 1 > Len(s) THEN 0
    ELSE IF StartsAt(s, p, i) THEN i ELSE FindFrom(s, p, i + 1)

Includes(s, p) == FindFrom(s, p, 1) # 0

\* String.prototype.replace(from, to) with a string pattern: first occurrence only
Replace(s, from, to) ==
    LET i == FindFrom(s, from, 1)
    IN IF i = 0 THEN s
       ELSE SubSeq(s, 1, i - 1) \o to \o SubSeq(s, i + Len(from), Len(s))

\* toCamelCase of @decaf-ts/logging:
\*   text.replace(/(?:^\w|[A-Z]|\b\w)/g, (w, index) => index === 0 ? lower : upper)
\*       .replace(/\s+/g, "")
CamelCh(s, i) ==
    LET c == Ch(s, i)
        hit == IF i = 1 THEN IsWord(c)
               ELSE IsUpper(c) \/ (IsWord(c) /\ ~IsWord(Ch(s, i - 1)))
    IN IF c = " " THEN ""
       ELSE IF ~hit THEN c
       ELSE IF i = 1 THEN ToLowerCh(c) ELSE ToUpperCh(c)

toCamelCase(text) == MapStr(CamelCh, text, 1)

(***************************************************************************)
(* Literal values                                                          *)
(***************************************************************************)
Num(n) == [t |-> "num", n |-> n, s |-> "", a |-> <<>>]
Str(s) == [t |-> "str", n |-> 0, s |-> s, a |-> <<>>]
Arr(a) == [t |-> "arr", n |-> 0, s |-> "", a |-> a]

\* Object.prototype.toString of a scalar
ScalarToString(v) == IF v.t = "num" THEN NumToStr(v.n) ELSE v.s

\* toString as applied by Array.prototype.join and by value.toString():
\* an array renders as its elements joined with ","
ValToString(v) ==
    IF v.t = "arr"
    THEN JoinStr([i \in 1..Len(v.a) |-> ScalarToString(v.a[i])], ",")
    ELSE ScalarToString(v)

(***************************************************************************)
(* Condition Trees (Condition of @decaf-ts/core: attr1, operator,          *)
(* comparison). attrIsString is `typeof attr1 === "string"`, cmpIsCond is  *)
(* `comparison instanceof Condition`.                                      *)
(***************************************************************************)
GroupOperators == {"AND", "OR"}
\* the operators parseCondition has a case for
LeafOperators ==
    {"EQUAL", "DIFFERENT", "REGEXP", "BIGGER", "BIGGER_EQ", "SMALLER", "SMALLER_EQ", "IN"}
\* an operator of the core enum that parseCondition has no case for
UnknownOperators == {"NOT"}

Leaf(attr, op, val) ==
    [operator |-> op, attr1 |-> attr, comparison |-> val,
     attrIsString |-> TRUE, cmpIsCond |-> FALSE]
GroupCond(l, op, r) ==
    [operator |-> op, attr1 |-> l, comparison |-> r,
     attrIsString |-> FALSE, cmpIsCond |-> TRUE]

IsGroup(c) == ~c.attrIsString /\ c.cmpIsCond

RECURSIVE LeavesOf(_)
\* the comparison leaves of a tree in left-to-right traversal order
LeavesOf(c) ==
    IF IsGroup(c) THEN LeavesOf(c.attr1) \o LeavesOf(c.comparison) ELSE <<c>>

RECURSIVE ConditionOperators(_)
ConditionOperators(c) ==
    IF IsGroup(c)
    THEN {c.operator} \cup ConditionOperators(c.attr1) \cup ConditionOperators(c.comparison)
    ELSE {c.operator}

(***************************************************************************)
(* HttpStatement.parseCondition                                            *)
(***************************************************************************)
Parsed(m, a) == [err |-> "none", method |-> m, args |-> a]
Thrown(e) == [err |-> e, method |-> "", args |-> <<>>]

\* the fixed keyword a leaf operator appends to the attribute name
\* a rendering that words SMALLER the way BIGGER is worded
LeafMethod_smaller(attr1, operator) ==
    CASE operator = "EQUAL" -> attr1
      [] operator = "DIFFERENT" -> attr1 \o " diff"
      [] operator = "REGEXP" -> attr1 \o " matches"
      [] operator = "BIGGER" -> attr1 \o " bigger"
      [] operator = "BIGGER_EQ" -> attr1 \o " bigger than equal"
      [] operator = "SMALLER" -> attr1 \o " smaller"
      [] operator = "SMALLER_EQ" -> attr1 \o " smaller than equal"
      [] operator = "IN" -> attr1 \o " in"

LeafMethod(attr1, operator) ==
    CASE operator = "EQUAL" -> attr1
      [] operator = "DIFFERENT" -> attr1 \o " diff"
      [] operator = "REGEXP" -> attr1 \o " matches"
      [] operator = "BIGGER" -> attr1 \o " bigger"
      [] operator = "BIGGER_EQ" -> attr1 \o " bigger than equal"
      [] operator = "SMALLER" -> attr1 \o " less"
      [] operator = "SMALLER_EQ" -> attr1 \o " less than equal"
      [] operator = "IN" -> attr1 \o " in"

\* the args a leaf case assigns to result.args; the BIGGER_EQ case assigns none
LeafArgs(operator, comparison) ==
    IF operator = "BIGGER_EQ" THEN <<>> ELSE <<comparison>>

\* the group case: both sides are parsed left then right, a throw propagates
GroupResult(operator, p1, p2) ==
    IF p1.err # "none" THEN p1
    ELSE IF p2.err # "none" THEN p2
    ELSE Parsed(p1.method \o " " \o ToLowerCase(operator) \o " " \o p2.method,
                p1.args \o p2.args)

\* a switch without the throwing default: the empty result falls through
UnsupportedOperator_fallthrough(operator) == Parsed("", <<>>)

\* the default case of the switch
UnsupportedOperator(operator) == Thrown("QueryError")

RECURSIVE parseCondition(_)
parseCondition(condition) ==
    LET operator == condition.operator IN
    IF operator \in GroupOperators
    THEN GroupResult(operator,
            IF ~condition.attrIsString THEN parseCondition(condition.attr1)
            ELSE Parsed(condition.attr1, <<>>),
            IF condition.cmpIsCond THEN parseCondition(condition.comparison)
            ELSE Parsed(ValToString(condition.comparison), <<>>))
    ELSE IF operator \in LeafOperators
    THEN Parsed(LeafMethod(condition.attr1, operator),
                LeafArgs(operator, condition.comparison))
    ELSE UnsupportedOperator(operator)

(***************************************************************************)
(* HttpStatement.build                                                     *)
(***************************************************************************)
\* QueryClause of @decaf-ts/core
FIND_BY == "findBy"
SELECT == "Select"
ORDER_BY == "OrderBy"
GROUP_BY == "GroupBy"
THEN_BY == "ThenBy"
AND == "And"
OR == "Or"

NoCondition == Leaf("", "", Str(""))

\* a Statement before any selector is set
EmptyStatement(clazz) ==
    [fromSelector |-> clazz,
     hasWhere |-> FALSE, whereCondition |-> NoCondition,
     hasSelect |-> FALSE, selectSelector |-> <<>>,
     hasOrderBy |-> FALSE, orderBySelector |-> <<>>,
     groupBySelector |-> "",
     limitSelector |-> 0,
     offsetSelector |-> 0]

Param(k, v) == [k |-> k, v |-> v]

\* a build() that pushes the order-by clause before the select clause
MethodWords_orderFirst(st, parsed) ==
    <<FIND_BY>>
    \o (IF st.hasWhere THEN <<parsed.method>> ELSE <<>>)
    \o (IF st.hasOrderBy THEN <<ORDER_BY>> \o st.orderBySelector ELSE <<>>)
    \o (IF st.hasSelect
        THEN <<SELECT, JoinStr(st.selectSelector, " " \o ToLowerCase(AND) \o " ")>>
        ELSE <<>>)
    \o (IF st.groupBySelector # "" THEN <<GROUP_BY, st.groupBySelector>> ELSE <<>>)

\* the method words build() pushes, in the order it pushes them
MethodWords(st, parsed) ==
    <<FIND_BY>>
    \o (IF st.hasWhere THEN <<parsed.method>> ELSE <<>>)
    \o (IF st.hasSelect
        THEN <<SELECT, JoinStr(st.selectSelector, " " \o ToLowerCase(AND) \o " ")>>
        ELSE <<>>)
    \o (IF st.hasOrderBy THEN <<ORDER_BY>> \o st.orderBySelector ELSE <<>>)
    \o (IF st.groupBySelector # "" THEN <<GROUP_BY, st.groupBySelector>> ELSE <<>>)

\* params.limit is assigned before params.skip; a selector of 0 is falsy
BuildParams(st) ==
    (IF st.limitSelector # 0 THEN <<Param("limit", Num(st.limitSelector))>> ELSE <<>>)
    \o (IF st.offsetSelector # 0 THEN <<Param("skip", Num(st.offsetSelector))>> ELSE <<>>)

Query(clazz, method, args, params) ==
    [class |-> clazz, method |-> method, args |-> args, params |-> params]

NoQuery == Query("", "", <<>>, <<>>)

\* build(): [err, query]; a throw of parseCondition propagates
build(st) ==
    LET parsed == IF st.hasWhere THEN parseCondition(st.whereCondition)
                  ELSE Parsed("", <<>>)
    IN IF parsed.err # "none"
       THEN [err |-> parsed.err, query |-> NoQuery]
       ELSE [err |-> "none",
             query |-> Query(st.fromSelector,
                             toCamelCase(JoinStr(MethodWords(st, parsed), " ")),
                             parsed.args,
                             BuildParams(st))]

(***************************************************************************)
(* Percent-encoding (the characters the model's inputs are drawn from)     *)
(***************************************************************************)
PctChars == " #%?/&=+,<>{}:@$;'"
PctHex == <<"20", "23", "25", "3F", "2F", "26", "3D", "2B", "2C", "3C", "3E",
            "7B", "7D", "3A", "40", "24", "3B", "27">>

IsAlnum(c) == c \in AlnumSet

\* %XX of a character
PctOf == [c \in CharsOf(PctChars) |->
            "%" \o PctHex[CHOOSE i \in 1..Len(PctHex) : Ch(PctChars, i) = c]]
Pct(c) == IF c \in DOMAIN PctOf THEN PctOf[c] ELSE c

\* the character a %XX triplet stands for
CharOfHex == [h \in {PctHex[i] : i \in 1..Len(PctHex)} |->
                Ch(PctChars, CHOOSE i \in 1..Len(PctHex) : PctHex[i] = h)]

\* percent-encode the characters of s that are in the set `enc`
EncodeSet(s, enc) ==
    LET f(t, i) == IF Ch(t, i) \in enc THEN Pct(Ch(t, i)) ELSE Ch(t, i)
    IN MapStr(f, s, 1)

\* percent-encode every character of s except those in the set `keep`
EncodeExcept(s, keep) ==
    LET f(t, i) == IF Ch(t, i) \in keep THEN Ch(t, i) ELSE Pct(Ch(t, i))
    IN MapStr(f, s, 1)

\* encodeURI leaves A-Z a-z 0-9 ; , / ? : @ & = + $ - _ . ! ~ * ' ( ) #
URIKeep == AlnumSet \cup CharsOf(";,/?:@&=+$-_.!~*'()#")
encodeURI(s) == EncodeExcept(s, URIKeep)

\* the character a %XX triplet at position i of s stands for, "" when there is none
TripletAt(s, i) ==
    IF i + 2 > Len(s) \/ Ch(s, i) # "%" THEN ""
    ELSE IF SubSeq(s, i + 1, i + 2) \in DOMAIN CharOfHex
    THEN CharOfHex[SubSeq(s, i + 1, i + 2)] ELSE ""

RECURSIVE PercentDecodeFrom(_, _)
PercentDecodeFrom(s, i) ==
    IF i > Len(s) THEN ""
    ELSE IF TripletAt(s, i) # "" THEN TripletAt(s, i) \o PercentDecodeFrom(s, i + 3)
    ELSE Ch(s, i) \o PercentDecodeFrom(s, i + 1)

\* percent-decoding (decodeURIComponent on well-formed input)
PercentDecode(s) == PercentDecodeFrom(s, 1)

RECURSIVE SplitFrom(_, _, _, _)
SplitFrom(s, sep, from, i) ==
    IF i + Len(sep) - 1 > Len(s) THEN <<SubSeq(s, from, Len(s))>>
    ELSE IF StartsAt(s, sep, i)
    THEN <<SubSeq(s, from, i - 1)>> \o SplitFrom(s, sep, i + Len(sep), i + Len(sep))
    ELSE SplitFrom(s, sep, from, i + 1)

\* String.prototype.split with a non-empty string separator
SplitStr(s, sep) == SplitFrom(s, sep, 1, 1)

RECURSIVE TrimEnd(_)
TrimEnd(s) == IF Len(s) > 0 /\ Ch(s, Len(s)) = " " THEN TrimEnd(SubSeq(s, 1, Len(s) - 1)) ELSE s

RECURSIVE TrimStart(_)
TrimStart(s) == IF Len(s) > 0 /\ Ch(s, 1) = " " THEN TrimStart(SubSeq(s, 2, Len(s))) ELSE s

Trim(s) == TrimStart(TrimEnd(s))

(***************************************************************************)
(* new URL(...) of the WHATWG URL standard, for an http(s) URL whose       *)
(* scheme and host are the adapter's configuration: `rest` is what follows *)
(* the host and starts with "/".                                           *)
(***************************************************************************)
\* the percent-encode sets of the path, of the query of a special scheme, and
\* of the fragment
PathEncodeSet == CharsOf(" #<>?{}")
QueryEncodeSet == CharsOf(" #<>'")
FragmentEncodeSet == CharsOf(" <>")

IsSingleDot(seg) == seg = "." \/ (Len(seg) = 3 /\ ToLowerCase(seg) = "%2e")
IsDoubleDot(seg) ==
    \/ seg = ".."
    \/ Len(seg) \in {4, 6} /\ ToLowerCase(seg) \in {".%2e", "%2e.", "%2e%2e"}

RECURSIVE PathSegments(_, _, _)
\* the path state: raw segments i.. are folded into the path `acc`
PathSegments(raw, i, acc) ==
    IF i > Len(raw) THEN acc
    ELSE LET seg == raw[i]
             isLast == i = Len(raw)
             popped == IF Len(acc) > 0 THEN SubSeq(acc, 1, Len(acc) - 1) ELSE acc
         IN IF IsDoubleDot(seg)
            THEN PathSegments(raw, i + 1, IF isLast THEN Append(popped, "") ELSE popped)
            ELSE IF IsSingleDot(seg)
            THEN PathSegments(raw, i + 1, IF isLast THEN Append(acc, "") ELSE acc)
            ELSE PathSegments(raw, i + 1, Append(acc, EncodeSet(seg, PathEncodeSet)))

\* [path, hasQuery, query, hasFragment, fragment]
ParseURL(rest) ==
    LET input == TrimEnd(rest)
        h == IndexOf("#", input)
        beforeHash == IF h = 0 THEN input ELSE SubSeq(input, 1, h - 1)
        q == IndexOf("?", beforeHash)
        pathPart == IF q = 0 THEN beforeHash ELSE SubSeq(beforeHash, 1, q - 1)
    IN [path |-> PathSegments(SplitStr(SubSeq(pathPart, 2, Len(pathPart)), "/"), 1, <<>>),
        hasQuery |-> q # 0,
        query |-> IF q = 0 THEN ""
                  ELSE EncodeSet(SubSeq(beforeHash, q + 1, Len(beforeHash)), QueryEncodeSet),
        hasFragment |-> h # 0,
        fragment |-> IF h = 0 THEN "" ELSE EncodeSet(SubSeq(input, h + 1, Len(input)), FragmentEncodeSet)]

\* url.toString()
SerializeURL(origin, u) ==
    origin
    \o JoinStr([i \in 1..Len(u.path) |-> "/" \o u.path[i]], "")
    \o (IF u.hasQuery THEN "?" \o u.query ELSE "")
    \o (IF u.hasFragment THEN "#" \o u.fragment ELSE "")

(***************************************************************************)
(* URLSearchParams                                                         *)
(***************************************************************************)
\* application/x-www-form-urlencoded serialisation of one name or value
UrlencodedKeep == AlnumSet \cup CharsOf("*-._")

UrlencodedCh(s, i) ==
    LET c == Ch(s, i)
    IN IF c = " " THEN "+"
       ELSE IF c \in UrlencodedKeep THEN c
       ELSE Pct(c)

UrlencodedString(s) == MapStr(UrlencodedCh, s, 1)

UrlencodedSerialize(pairs) ==
    JoinStr([i \in 1..Len(pairs) |->
                UrlencodedString(pairs[i].k) \o "=" \o UrlencodedString(pairs[i].v)], "&")

PlusToSpace(s) == LET f(t, i) == IF Ch(t, i) = "+" THEN " " ELSE Ch(t, i) IN MapStr(f, s, 1)

\* application/x-www-form-urlencoded parsing of the URL's query
UrlencodedParse(query) ==
    LET parts == SelectSeq(SplitStr(query, "&"), LAMBDA x : x # "")
        pair(x) == LET e == IndexOf("=", x)
                   IN [k |-> PercentDecode(PlusToSpace(IF e = 0 THEN x ELSE SubSeq(x, 1, e - 1))),
                       v |-> PercentDecode(PlusToSpace(IF e = 0 THEN ""
                                                       ELSE SubSeq(x, e + 1, Len(x))))]
    IN [i \in 1..Len(parts) |-> pair(parts[i])]

\* url.searchParams.append for each entry, in order, then the URL's query is
\* replaced by the serialisation of the whole list
AppendSearchParams_reversed(u, queryParams) ==
    IF Len(queryParams) = 0 THEN u
    ELSE LET n == Len(queryParams)
             list == (IF u.hasQuery THEN UrlencodedParse(u.query) ELSE <<>>)
                     \o [i \in 1..n |->
                            [k |-> queryParams[n + 1 - i].k,
                             v |-> ValToString(queryParams[n + 1 - i].v)]]
         IN [u EXCEPT !.hasQuery = TRUE, !.query = UrlencodedSerialize(list)]

AppendSearchParams(u, queryParams) ==
    IF Len(queryParams) = 0 THEN u
    ELSE LET list == (IF u.hasQuery THEN UrlencodedParse(u.query) ELSE <<>>)
                     \o [i \in 1..Len(queryParams) |->
                            [k |-> queryParams[i].k, v |-> ValToString(queryParams[i].v)]]
         IN [u EXCEPT !.hasQuery = TRUE, !.query = UrlencodedSerialize(list)]

(***************************************************************************)
(* HttpAdapter.toTableName, HttpAdapter.url                                *)
(***************************************************************************)
\* toKebabCase of @decaf-ts/logging:
\*   text.replace(/([a-z])([A-Z])/g, "$1-$2").replace(/[\s_]+/g, "-").toLowerCase()
KebabCh(s, i) ==
    LET c == Ch(s, i)
    IN IF c = " " \/ c = "_"
       THEN (IF i > 1 /\ Ch(s, i - 1) \in {" ", "_"} THEN "" ELSE "-")
       ELSE IF IsUpper(c) /\ i > 1 /\ IsLower(Ch(s, i - 1)) THEN "-" \o ToLowerCh(c)
       ELSE ToLowerCh(c)

toKebabCase(text) == MapStr(KebabCh, text, 1)

\* a model class: its name, Model.tableName, and Model.composed of its primary key
ModelClass(name, table, composed, separator) ==
    [isString |-> FALSE, name |-> name, table |-> table,
     composed |-> composed, separator |-> separator]
\* a table name passed as a plain string instead of a constructor
TableString(name) ==
    [isString |-> TRUE, name |-> name, table |-> name,
     composed |-> FALSE, separator |-> ""]

toTableName(t) == IF t.isString THEN t.name ELSE toKebabCase(t.table)

\* the adapter's HttpConfig
Config == [protocol |-> "https", host |-> "example.com"]

\* the string handed to new URL(): table name, then the path params joined with "/"
RawPath(tableName, pathParams) ==
    "/" \o toTableName(tableName)
    \o (IF Len(pathParams) > 0
        THEN "/" \o JoinStr([i \in 1..Len(pathParams) |-> ValToString(pathParams[i])], "/")
        ELSE "")

url(tableName, pathParams, queryParams) ==
    encodeURI(SerializeURL(Config.protocol \o "://" \o Config.host,
                           AppendSearchParams(ParseURL(RawPath(tableName, pathParams)),
                                              queryParams)))

(***************************************************************************)
(* Requests: AxiosHttpAdapter.toRequest, request, raw and the CRUD methods *)
(***************************************************************************)
\* the headers of the operation's Context, context.get("headers") || {}
ContextHeaders == "{}"

\* an AxiosRequestConfig as handed to client.request
Request(u, method, hasData, data) ==
    [url |-> u, method |-> method, hasData |-> hasData, data |-> data,
     headers |-> ContextHeaders]

\* PersistenceKeys.STATEMENT
STATEMENT == "statement"

\* a request builder that numbers its requests: the count of the requests
\* sent before travels as one more path segment
toRequest_counting(query) ==
    Request(url(query.class,
                <<Str(STATEMENT), Str(query.method)>> \o query.args \o <<Num(Len(sent))>>,
                query.params),
            "GET", FALSE, "")

\* toRequest(query, ctx): a GET on <table>/statement/<method>/<args...>?<params>
toRequest(query) ==
    Request(url(query.class,
                <<Str(STATEMENT), Str(query.method)>> \o query.args,
                query.params),
            "GET", FALSE, "")

\* ModelKeys.ANCHOR
ANCHOR == "__model"

\* Object.assign({}, model, {[ANCHOR]: name}) on an insertion-ordered record
AssignAnchor(model, name) ==
    IF \E i \in 1..Len(model) : model[i].k = ANCHOR
    THEN [i \in 1..Len(model) |->
            IF model[i].k = ANCHOR THEN Param(ANCHOR, Str(name)) ELSE model[i]]
    ELSE Append(model, Param(ANCHOR, Str(name)))

Quote == "\""

JSONValue(v) == IF v.t = "num" THEN NumToStr(v.n) ELSE Quote \o v.s \o Quote

JSONMember(p) == Quote \o p.k \o Quote \o ":" \o JSONValue(p.v)

\* JSON.stringify of a flat record
JSONstringify(obj) ==
    "{" \o JoinStr([i \in 1..Len(obj) |-> JSONMember(obj[i])], ",") \o "}"

\* the id path segments of a single-record request
extractIdArgs(model, id) ==
    IF model.isString THEN <<Str(id)>>
    ELSE IF ~model.composed THEN <<Str(id)>>
    ELSE LET parts == SplitStr(id, model.separator)
         IN [i \in 1..Len(parts) |-> Str(parts[i])]

\* create issued with the verb of update
createRequest_put(tableName, id, model) ==
    Request(url(tableName, extractIdArgs(tableName, id), <<>>), "PUT", TRUE,
            JSONstringify(AssignAnchor(model, tableName.name)))

\* create posting to the collection URL, without the id segments
createRequest_collection(tableName, id, model) ==
    Request(url(tableName, <<>>, <<>>), "POST", TRUE,
            JSONstringify(AssignAnchor(model, tableName.name)))

createRequest(tableName, id, model) ==
    Request(url(tableName, extractIdArgs(tableName, id), <<>>), "POST", TRUE,
            JSONstringify(AssignAnchor(model, tableName.name)))

readRequest(tableName, id) ==
    Request(url(tableName, extractIdArgs(tableName, id), <<>>), "GET", FALSE, "")

updateRequest(tableName, id, model) ==
    Request(url(tableName, extractIdArgs(tableName, id), <<>>), "PUT", TRUE,
            JSONstringify(AssignAnchor(model, tableName.name)))

deleteRequest(tableName, id) ==
    Request(url(tableName, extractIdArgs(tableName, id), <<>>), "DELETE", FALSE, "")

\* JSON.stringify of an array of flat records
JSONstringifyAll(objs) ==
    "[" \o JoinStr([i \in 1..Len(objs) |-> JSONstringify(objs[i])], ",") \o "]"

createAllRequest(clazz, models) ==
    Request(url(clazz, <<Str("bulk")>>, <<>>), "POST", TRUE,
            JSONstringifyAll([i \in 1..Len(models) |-> AssignAnchor(models[i], clazz.name)]))

readAllRequest(tableName, ids) ==
    Request(url(tableName, <<Str("bulk")>>, <<Param("ids", Arr(ids))>>), "GET", FALSE, "")

updateAllRequest(tableName, models) ==
    Request(url(tableName, <<Str("bulk")>>, <<>>), "PUT", TRUE,
            JSONstringifyAll([i \in 1..Len(models) |->
                                 AssignAnchor(models[i], tableName.name)]))

deleteAllRequest(tableName, ids) ==
    Request(url(tableName, <<Str("bulk")>>, <<Param("ids", Arr(ids))>>), "DELETE", FALSE, "")

(***************************************************************************)
(* Responses and errors: HttpAdapter.parseError, the parseResponse of the  *)
(* AxiosHttpAdapter and the NestJSResponseParser                           *)
(***************************************************************************)
\* further JavaScript values: undefined, null, a plain object (its members in
\* insertion order), an Error with its message, an instance of a model class
Undefined == [t |-> "undefined", n |-> 0, s |-> "", a |-> <<>>]
Null == [t |-> "null", n |-> 0, s |-> "", a |-> <<>>]
Obj(members) == [t |-> "obj", n |-> 0, s |-> "", a |-> members]
ErrorObj(message) == [t |-> "error", n |-> 0, s |-> message, a |-> <<>>]
\* new clazz(d): the record's attributes copied into an instance of the model
Inst(clazz, d) ==
    [t |-> "inst", n |-> 0, s |-> clazz.name, a |-> IF d.t = "obj" THEN d.a ELSE <<>>]

\* JavaScript truthiness
Truthy(v) ==
    CASE v.t \in {"undefined", "null"} -> FALSE
      [] v.t = "num" -> v.n # 0
      [] v.t = "str" -> v.s # ""
      [] OTHER -> TRUE

\* what a call hands to its caller: a returned value or a thrown error
NoResult == [by |-> "", kind |-> "none", value |-> Undefined, name |-> "", message |-> ""]
Returned(by, v) == [by |-> by, kind |-> "value", value |-> v, name |-> "", message |-> ""]
Raised(by, e) ==
    [by |-> by, kind |-> "error", value |-> Undefined, name |-> e.name,
     message |-> e.message]

\* a response as the transport resolves it: the AxiosHttpAdapter reads status,
\* error and body, the NestJSResponseParser status, raw and data
Response(status, error, body, raw, data) ==
    [status |-> status, error |-> error, body |-> body, raw |-> raw, data |-> data]
NoResponse == Response(Undefined, Undefined, Undefined, Undefined, Undefined)
\* a fallback that hands back the body of the response
ResponseValue_body(res) == res.body

\* the response object itself as a value
ResponseValue(res) ==
    Obj(SelectSeq(<<Param("status", res.status), Param("error", res.error),
                    Param("body", res.body), Param("raw", res.raw),
                    Param("data", res.data)>>,
                  LAMBDA p : p.v.t # "undefined"))

\* the error classes parseError tests for, in the order it tests them, with a
\* class name order swapped (QueryError after PagingError)
ErrorNames_swapped ==
    <<"NotFoundError", "ConflictError", "BadRequestError", "ValidationError",
      "PagingError", "QueryError", "UnsupportedError", "MigrationError",
      "ObserverError", "AuthorizationError", "ForbiddenError", "ConnectionError",
      "SerializationError">>

\* the error classes parseError tests for, in the order it tests them
ErrorNames ==
    <<"NotFoundError", "ConflictError", "BadRequestError", "ValidationError",
      "QueryError", "PagingError", "UnsupportedError", "MigrationError",
      "ObserverError", "AuthorizationError", "ForbiddenError", "ConnectionError",
      "SerializationError">>
\* the status codes the first four tests also accept
StatusTokens == <<"404", "409", "400", "422">>

\* the k-th test of parseError
MatchesError(msg, k) ==
    \/ Includes(msg, ErrorNames[k])
    \/ (k <= Len(StatusTokens) /\ Includes(msg, StatusTokens[k]))

RECURSIVE ClassifyFrom(_, _)
\* the class of the first test at or after k that the message passes
ClassifyFrom(msg, k) ==
    IF k > Len(ErrorNames) THEN "InternalError"
    ELSE IF MatchesError(msg, k) THEN ErrorNames[k]
    ELSE ClassifyFrom(msg, k + 1)

\* BaseError of @decaf-ts/db-decorators: the message is "[name] original"
BaseErrorMessage(name, msg) == "[" \o name \o "] " \o msg

\* a thrown error: its class and its message
Err(name, message) == [name |-> name, message |-> message]

\* HttpAdapter.parseError(err): msg is err itself for a string and err.message
\* otherwise; for a value with no message (a number) msg is undefined and
\* msg.includes throws a TypeError
parseError(err) ==
    IF err.t \in {"str", "error"}
    THEN CHOOSE e \in {Err(name, BaseErrorMessage(name, err.s)) :
                          name \in {ClassifyFrom(err.s, 1)}} : TRUE
    ELSE Err("TypeError", "Cannot read properties of undefined (reading 'includes')")

\* OperationKeys, BulkCrudOperationKeys and PreparedStatementKeys
CrudKeys == {"create", "read", "update", "delete"}
BulkKeys == {"createAll", "readAll", "updateAll", "deleteAll"}
FindKeys == {"find", "page", "findBy", "listBy", "pageBy", "findOneBy", STATEMENT}
\* a switch with no case for the scalar aggregates
AggregateKeys_none == {}
AggregateKeys == {"countOf", "maxOf", "minOf", "avgOf", "sumOf"}
DISTINCT_OF == "distinctOf"
GROUP_OF == "groupOf"

\* Adapter.parseResponse of @decaf-ts/core, applied to the body of a find,
\* page or statement response: kept opaque
superParseResponse(clazz, method, body) ==
    [t |-> "core", n |-> 0, s |-> method, a |-> <<body>>]

\* Object.entries of a body: the members of an object, the indexed elements
\* of an array
Entries(body) ==
    IF body.t = "arr"
    THEN [i \in 1..Len(body.a) |-> Param(NumToStr(i - 1), body.a[i])]
    ELSE body.a

\* a groupOf branch that passes every value through unchanged
HydrateGroups_unhydrated(clazz, body) == Obj(Entries(body))

\* the groupOf branch: every array value mapped through new clazz(d)
HydrateGroups(clazz, body) ==
    Obj([i \in 1..Len(Entries(body)) |->
            LET e == Entries(body)[i]
            IN IF e.v.t = "arr"
               THEN Param(e.k, Arr([j \in 1..Len(e.v.a) |-> Inst(clazz, e.v.a[j])]))
               ELSE e])

\* res.status >= 400 (false for an undefined status)
IsErrorStatus(status) == status.t = "num" /\ status.n >= 400

\* AxiosHttpAdapter.parseResponse(clazz, method, res)
parseResponse(clazz, method, res) ==
    IF ~Truthy(res.status) /\ method # STATEMENT
    THEN Raised("parseResponse", Err("InternalError",
                BaseErrorMessage("InternalError", "this should be impossible")))
    ELSE IF IsErrorStatus(res.status)
    THEN Raised("parseResponse",
                parseError(IF Truthy(res.error) THEN res.error ELSE res.status))
    ELSE IF method \in CrudKeys \cup BulkKeys THEN Returned("parseResponse", res.body)
    ELSE IF method \in FindKeys
    THEN Returned("parseResponse", superParseResponse(clazz, method, res.body))
    ELSE IF method \in AggregateKeys THEN Returned("parseResponse", res.body)
    ELSE IF method = DISTINCT_OF THEN Returned("parseResponse", res.body)
    ELSE IF method = GROUP_OF
    THEN IF res.body.t \in {"obj", "arr", "inst"}
         THEN Returned("parseResponse", HydrateGroups(clazz, res.body))
         ELSE Returned("parseResponse", res.body)
    ELSE Returned("parseResponse", ResponseValue(res))

\* ResponseParser.parse(method, response): the response as it is
ResponseParserParse(method, res) == Returned("ResponseParser.parse", ResponseValue(res))

\* NestJSResponseParser.parse(method, response)
parse(method, res) ==
    IF res.status.t # "num"
    THEN Raised("parse", Err("TypeError",
                "Cannot read properties of undefined (reading 'toString')"))
    ELSE IF ~(res.status.n >= 200 /\ res.status.n < 300)
    THEN Raised("parse", parseError(Str(NumToStr(res.status.n))))
    ELSE IF method \in BulkKeys \cup {"findBy", "listBy", "pageBy"}
    THEN Returned("parse", res.raw)
    ELSE IF method \in CrudKeys THEN Returned("parse", res.data)
    ELSE Returned("parse", res.raw)

(***************************************************************************)
(* Server events: ServerEventConnector and HttpDispatcher                  *)
(***************************************************************************)
Dispatchers == 1..MaxDispatchers

\* config.eventsListenerPath of the adapter a dispatcher observes
eventsListenerPath(d) == IF d % 3 = 0 THEN "/other" ELSE "/events"

\* new URL(eventsListenerPath, `${protocol}://${host}`).toString()
listeningUrl(d) == Config.protocol \o "://" \o Config.host \o eventsListenerPath(d)

Urls == {listeningUrl(d) : d \in Dispatchers}

\* a ServerEventConnector: url, es (the EventSourcePlus is defined), the
\* handlers es.listen was given (those of one dispatcher, 0 before listening),
\* the listeners set, and whether its setInterval timer is running
Connector(u, es, handlers, listeners, timer) ==
    [url |-> u, es |-> es, handlers |-> handlers, listeners |-> listeners,
     timer |-> timer]

\* an HttpDispatcher: initialized, listening, connector (0 for undefined);
\* closed records that close() was called since it last started listening
Dispatcher(initialized, listening, connector, closed) ==
    [initialized |-> initialized, listening |-> listening, connector |-> connector,
     closed |-> closed]

\* ServerEventConnector.parseReceivedEvent on a message's data: Null unless
\* an array of three elements or more whose first element is a string
parseReceivedEvent(raw) ==
    IF raw.t # "arr" THEN Null
    ELSE IF Len(raw.a) < 3 THEN Null
    ELSE IF raw.a[1].t # "str" THEN Null
    ELSE Arr(<<raw.a[1], Str(ValToString(raw.a[2])), raw.a[3],
               IF Len(raw.a) >= 4 THEN raw.a[4] ELSE Undefined>>)

InitStream ==
    /\ cache = [u \in Urls |-> 0]
    /\ connectors = <<>>
    /\ dispatchers = [d \in Dispatchers |-> Dispatcher(FALSE, FALSE, 0, FALSE)]
    /\ emitted = <<>>
    /\ delivered = [d \in Dispatchers |-> <<>>]

(***************************************************************************)
(* State shared by the specifications                                      *)
(***************************************************************************)
Built(status, query) == [status |-> status, query |-> query]
Outcome(op, status) == [op |-> op, status |-> status]
\* the operation behind a request: its kind, model, id, key components, page number
Op(op, clazz, id, key, page) ==
    [op |-> op, clazz |-> clazz, id |-> id, key |-> key, page |-> page]

NoPaginator == [statement |-> [class |-> TableString(""), method |-> "", args |-> 0,
                               params |-> <<>>],
                size |-> 0, currentPage |-> 0]

TestModel == ModelClass("TestModel", "test_model", FALSE, "")
ComposedTestModel == ModelClass("ComposedTestModel", "composed_test_model", TRUE, "_")

InitCommon ==
    /\ stack = <<>>
    /\ built = Built("idle", NoQuery)
    /\ sent = <<>>
    /\ ops = <<>>
    /\ last = Outcome("none", "none")
    /\ paginator = NoPaginator
    /\ heap = <<>>
    /\ calls = <<>>
    /\ response = NoResponse
    /\ result = NoResult
    /\ statement = EmptyStatement(TestModel)
    /\ history = <<>>
    /\ observers = <<>>
    /\ InitStream

\* a transport wrapper that issues every request twice
Transport_twice(req, op) ==
    /\ sent' = sent \o <<req, req>>
    /\ ops' = ops \o <<op, op>>

\* HttpAdapter.raw: toRequest then request; the transport sees the request
\* with the context's overrides (headers) merged in
Transport(req, op) ==
    /\ sent' = Append(sent, req)
    /\ ops' = Append(ops, op)

(***************************************************************************)
(* Statement specification: the caller builds a Condition Tree with the    *)
(* fluent builder, then executes the statement (build, then raw).          *)
(***************************************************************************)
\* the literal the k-th leaf created compares against
Literals == <<21, 25, 30, 35>>
\* the attribute a leaf of each operator is about
AttrOf(op) == IF op \in {"EQUAL", "DIFFERENT", "REGEXP", "IN"} THEN "name" ELSE "age"

LeafValue(op, k) == IF op = "IN" THEN Arr(<<Num(Literals[k]), Num(Literals[k] + 1)>>)
                    ELSE Num(Literals[k])

RECURSIVE CountLeaves(_)
CountLeaves(st) ==
    IF Len(st) = 0 THEN 0 ELSE Len(LeavesOf(Head(st))) + CountLeaves(Tail(st))

\* Condition.attribute(attr).<op>(value)
Attribute(op) ==
    /\ built.status = "idle"
    /\ CountLeaves(stack) < MaxLeaves
    /\ stack' = Append(stack, Leaf(AttrOf(op), op, LeafValue(op, CountLeaves(stack) + 1)))
    /\ UNCHANGED <<built, sent, ops, last, paginator, heap, calls, response, result,
                   statement, history, observers, streamVars>>

\* left.and(right) / left.or(right)
Group(op) ==
    /\ built.status = "idle"
    /\ Len(stack) >= 2
    /\ stack' = Append(SubSeq(stack, 1, Len(stack) - 2),
                       GroupCond(stack[Len(stack) - 1], op, stack[Len(stack)]))
    /\ UNCHANGED <<built, sent, ops, last, paginator, heap, calls, response, result,
                   statement, history, observers, streamVars>>

\* the statement the caller executes: where(condition) when one was built
StatementOf(st) ==
    IF Len(st) = 0 THEN EmptyStatement(TestModel)
    ELSE [EmptyStatement(TestModel) EXCEPT !.hasWhere = TRUE, !.whereCondition = st[1]]

\* Statement.execute: build(), and only then adapter.raw(query)
Execute ==
    /\ built.status = "idle"
    /\ Len(stack) <= 1
    /\ LET b == build(StatementOf(stack))
       IN IF b.err # "none"
          THEN /\ built' = Built(b.err, NoQuery)
               /\ last' = Outcome("statement", b.err)
               /\ UNCHANGED <<sent, ops>>
          ELSE /\ built' = Built("ok", b.query)
               /\ last' = Outcome("statement", "pending")
               /\ Transport(toRequest(b.query),
                            Op("statement", TestModel, "", <<>>, 0))
    /\ UNCHANGED <<stack, paginator, heap, calls, response, result, statement, history,
                   observers, streamVars>>

NextStmt ==
    \/ \E op \in LeafOperators \cup UnknownOperators : Attribute(op)
    \/ \E op \in GroupOperators : Group(op)
    \/ Execute

SpecStmt == InitCommon /\ [][NextStmt]_vars

(***************************************************************************)
(* CRUD specification: create, read, update and delete of single records   *)
(***************************************************************************)
\* the models the operations are called with
CrudModels == {TestModel, ComposedTestModel}
\* read and delete also accept the table name as a string
ReadModels == CrudModels \cup {TableString("test")}

\* the primary key of a record, by components: one component for a plain
\* key, the composed fields (name, age) for a composed key
KeysOf(m) ==
    IF m.composed THEN {<<"a", "1">>, <<"a_b", "1">>} ELSE {<<"id">>, <<"a_1">>}

\* the id db-decorators computes for a composed key: the fields joined with
\* the separator
IdOf(m, key) == IF m.composed THEN JoinStr(key, m.separator) ELSE key[1]

\* the record persisted under a key
RecordOf(m, key) == <<Param("id", Str(IdOf(m, key))), Param("name", Str("name"))>>

\* the transport resolves with a response or rejects with an Error
Resolved(body) == Response(Num(200), Undefined, body, Undefined, Undefined)
Rejected(message) == Response(Undefined, ErrorObj(message), Undefined, Undefined, Undefined)
IsRejected(o) == o.status.t = "undefined" /\ o.error.t = "error"
TransportOutcomes ==
    {Resolved(Obj(<<Param("id", Str("id")), Param("name", Str("name"))>>)),
     Rejected("boom"), Rejected("Request failed with status code 404")}

\* try { return await this.request(...) } catch (e) { throw this.parseError(e) }:
\* the response is returned as it is, a rejection is caught and classified
Awaited(op, o) ==
    IF IsRejected(o) THEN Raised(op, parseError(o.error))
    ELSE Returned(op, ResponseValue(o))

\* try { return this.request(...) } catch (e) { ... } in an async method: the
\* promise is returned without being awaited, so its rejection settles the
\* method's own promise and never enters the catch block
NotAwaited(op, o) ==
    IF IsRejected(o) THEN Raised(op, Err("Error", o.error.s))
    ELSE Returned(op, ResponseValue(o))

\* the operation settles: the caller has its result
Settle(r, o) ==
    /\ response' = o
    /\ result' = r
    /\ last' = Outcome(r.by, IF r.kind = "error" THEN r.name ELSE "ok")

Create(m, key, outcome) ==
    /\ Len(sent) < MaxOps
    /\ Transport(createRequest(m, IdOf(m, key), RecordOf(m, key)),
                 Op("create", m, IdOf(m, key), key, 0))
    /\ Settle(Awaited("create", outcome), outcome)
    /\ UNCHANGED <<stack, built, paginator, heap, calls, statement, history, observers,
                   streamVars>>

Read(m, key, outcome) ==
    /\ Len(sent) < MaxOps
    /\ Transport(readRequest(m, IdOf(m, key)), Op("read", m, IdOf(m, key), key, 0))
    /\ Settle(Awaited("read", outcome), outcome)
    /\ UNCHANGED <<stack, built, paginator, heap, calls, statement, history, observers,
                   streamVars>>

Update(m, key, outcome) ==
    /\ Len(sent) < MaxOps
    /\ Transport(updateRequest(m, IdOf(m, key), RecordOf(m, key)),
                 Op("update", m, IdOf(m, key), key, 0))
    /\ Settle(Awaited("update", outcome), outcome)
    /\ UNCHANGED <<stack, built, paginator, heap, calls, statement, history, observers,
                   streamVars>>

Delete(m, key, outcome) ==
    /\ Len(sent) < MaxOps
    /\ Transport(deleteRequest(m, IdOf(m, key)), Op("delete", m, IdOf(m, key), key, 0))
    /\ Settle(Awaited("delete", outcome), outcome)
    /\ UNCHANGED <<stack, built, paginator, heap, calls, statement, history, observers,
                   streamVars>>

NextCrud ==
    \/ \E m \in CrudModels : \E key \in KeysOf(m) : \E o \in TransportOutcomes :
          Create(m, key, o)
    \/ \E m \in ReadModels : \E key \in KeysOf(m) : \E o \in TransportOutcomes :
          Read(m, key, o)
    \/ \E m \in CrudModels : \E key \in KeysOf(m) : \E o \in TransportOutcomes :
          Update(m, key, o)
    \/ \E m \in ReadModels : \E key \in KeysOf(m) : \E o \in TransportOutcomes :
          Delete(m, key, o)

SpecCrud == InitCommon /\ [][NextCrud]_vars

(***************************************************************************)
(* Bulk specification: the single-record operations and createAll,         *)
(* readAll, updateAll and deleteAll                                        *)
(***************************************************************************)
\* the keys of the records a bulk operation is called with, in order
KeyList(m) ==
    IF m.composed THEN << <<"a", "1">>, <<"a_b", "1">> >> ELSE << <<"id">>, <<"a_1">> >>
IdList(m) == [i \in 1..Len(KeyList(m)) |-> Str(IdOf(m, KeyList(m)[i]))]
RecordList(m) == [i \in 1..Len(KeyList(m)) |-> RecordOf(m, KeyList(m)[i])]

CreateAll(m, outcome) ==
    /\ Len(sent) < MaxOps
    /\ Transport(createAllRequest(m, RecordList(m)), Op("createAll", m, "", <<>>, 0))
    /\ Settle(NotAwaited("createAll", outcome), outcome)
    /\ UNCHANGED <<stack, built, paginator, heap, calls, statement, history, observers,
                   streamVars>>

ReadAll(m, outcome) ==
    /\ Len(sent) < MaxOps
    /\ Transport(readAllRequest(m, IdList(m)), Op("readAll", m, "", <<>>, 0))
    /\ Settle(Awaited("readAll", outcome), outcome)
    /\ UNCHANGED <<stack, built, paginator, heap, calls, statement, history, observers,
                   streamVars>>

UpdateAll(m, outcome) ==
    /\ Len(sent) < MaxOps
    /\ Transport(updateAllRequest(m, RecordList(m)), Op("updateAll", m, "", <<>>, 0))
    /\ Settle(NotAwaited("updateAll", outcome), outcome)
    /\ UNCHANGED <<stack, built, paginator, heap, calls, statement, history, observers,
                   streamVars>>

DeleteAll(m, outcome) ==
    /\ Len(sent) < MaxOps
    /\ Transport(deleteAllRequest(m, IdList(m)), Op("deleteAll", m, "", <<>>, 0))
    /\ Settle(Awaited("deleteAll", outcome), outcome)
    /\ UNCHANGED <<stack, built, paginator, heap, calls, statement, history, observers,
                   streamVars>>

NextBulk ==
    \/ NextCrud
    \/ \E m \in CrudModels : \E o \in TransportOutcomes : CreateAll(m, o)
    \/ \E m \in ReadModels : \E o \in TransportOutcomes : ReadAll(m, o)
    \/ \E m \in CrudModels : \E o \in TransportOutcomes : UpdateAll(m, o)
    \/ \E m \in ReadModels : \E o \in TransportOutcomes : DeleteAll(m, o)

SpecBulk == InitCommon /\ [][NextBulk]_vars

(***************************************************************************)
(* Request specification: adapter.raw on Query Descriptors whose args are  *)
(* arbitrary caller values (repo.findOneBy(attr, value) and the like)      *)
(***************************************************************************)
\* the values a caller passes as arguments
ArgValues ==
    {Str("id"), Num(1), Str("a/b"), Str("a?b"), Str("a#b"), Str("50%"), Str("a b"),
     Str(".."), Arr(<<Num(1), Num(2)>>)}

\* the prepared statements of RestService: a method token, args filled in next
InitRequest ==
    /\ built \in {Built("ok", Query(TestModel, m, <<>>, <<>>)) : m \in {"findOneBy", "findBy"}}
    /\ stack = <<>>
    /\ sent = <<>>
    /\ ops = <<>>
    /\ last = Outcome("none", "none")
    /\ paginator = NoPaginator
    /\ heap = <<>>
    /\ calls = <<>>
    /\ response = NoResponse
    /\ result = NoResult
    /\ statement = EmptyStatement(TestModel)
    /\ history = <<>>
    /\ observers = <<>>
    /\ InitStream

\* the caller supplies the next positional argument
AddArg(v) ==
    /\ Len(sent) = 0
    /\ Len(built.query.args) < MaxArgs
    /\ built' = [built EXCEPT !.query.args = Append(@, v)]
    /\ UNCHANGED <<stack, sent, ops, last, paginator, heap, calls, response, result,
                   statement, history, observers, streamVars>>

\* HttpAdapter.raw(query): toRequest, then request
Raw ==
    /\ Len(sent) = 0
    /\ Transport(toRequest(built.query), Op("statement", built.query.class, "", <<>>, 0))
    /\ last' = Outcome("statement", "pending")
    /\ UNCHANGED <<stack, built, paginator, heap, calls, response, result, statement,
                   history, observers, streamVars>>

NextRequest ==
    \/ \E v \in ArgValues : AddArg(v)
    \/ Raw

SpecRequest == InitRequest /\ [][NextRequest]_vars

(***************************************************************************)
(* HttpPaginator                                                           *)
(***************************************************************************)
\* OrderDirection of @decaf-ts/core
ASC == "asc"
DSC == "desc"

\* toPascalCase of @decaf-ts/logging: camel case with the first letter upper
toPascalCase(text) ==
    LET c == toCamelCase(text)
    IN IF c = "" THEN "" ELSE ToUpperCh(Ch(c, 1)) \o SubSeq(c, 2, Len(c))

\* toPascalCase(OrderDirection.ASC), toPascalCase(OrderDirection.DSC)
PascalASC == toPascalCase(ASC)
PascalDSC == toPascalCase(DSC)

\* an alternative of a regular expression: a literal, optionally followed by .*
Alt(lit, rest) == [lit |-> lit, rest |-> rest]

\* s matches the literal p at position i, ignoring case
RECURSIVE EqualCIFrom(_, _, _, _)
EqualCIFrom(s, p, i, k) ==
    \/ k > Len(p)
    \/ /\ ToLowerCh(Ch(s, i + k - 1)) = ToLowerCh(Ch(p, k))
       /\ EqualCIFrom(s, p, i, k + 1)

StartsAtCI(s, p, i) == i + Len(p) - 1 <= Len(s) /\ EqualCIFrom(s, p, i, 1)

RECURSIVE MatchLen(_, _, _, _)
\* length of the match of the case-insensitive alternation alts[k..] at i, 0 for none
MatchLen(s, alts, k, i) ==
    IF k > Len(alts) THEN 0
    ELSE IF StartsAtCI(s, alts[k].lit, i)
    THEN (IF alts[k].rest THEN Len(s) - i + 1 ELSE Len(alts[k].lit))
    ELSE MatchLen(s, alts, k + 1, i)

RECURSIVE RegexSplitFrom(_, _, _, _, _)
RegexSplitFrom(s, alts, capture, from, i) ==
    IF i > Len(s) THEN <<SubSeq(s, from, Len(s))>>
    ELSE LET m == MatchLen(s, alts, 1, i)
         IN IF m = 0 THEN RegexSplitFrom(s, alts, capture, from, i + 1)
            ELSE <<SubSeq(s, from, i - 1)>>
                 \o (IF capture THEN <<SubSeq(s, i, i + m - 1)>> ELSE <<>>)
                 \o RegexSplitFrom(s, alts, capture, i + m, i + m)

\* String.prototype.split with a regular expression that is a case-insensitive
\* alternation; with a capturing group the separators are part of the result
RegexSplit(s, alts, capture) == RegexSplitFrom(s, alts, capture, 1, 1)

\* .map((s) => s.trim()).filter(Boolean)
TrimFilter(ss) == SelectSeq([i \in 1..Len(ss) |-> Trim(ss[i])], LAMBDA x : x # "")

\* the pieces of the method token prepare() keeps as attributes
PrepareAttrs(method) ==
    LET pieces == TrimFilter(RegexSplit(method,
                     <<Alt(FIND_BY, FALSE), Alt(SELECT, FALSE), Alt(ORDER_BY, FALSE),
                       Alt(GROUP_BY, FALSE), Alt(AND, FALSE), Alt(OR, FALSE)>>, TRUE))
        clauses == <<FIND_BY, SELECT, ORDER_BY, GROUP_BY, PascalASC, PascalDSC>>
    IN SelectSeq(pieces, LAMBDA x : ~\E k \in 1..Len(clauses) : Includes(x, clauses[k]))

\* [err, attr, hasAttr, direction] from the part of the token after OrderBy;
\* reading fullOrderBy[1] when the token has no OrderBy is a TypeError
PrepareOrderBy(method) ==
    LET fullOrderBy == SplitStr(method, ORDER_BY)
    IN IF Len(fullOrderBy) < 2
       THEN [err |-> "TypeError", hasAttr |-> FALSE, attr |-> "", direction |-> ""]
       ELSE LET orderBy == TrimFilter(RegexSplit(fullOrderBy[2],
                              <<Alt(PascalASC, FALSE), Alt(PascalDSC, FALSE),
                                Alt(GROUP_BY, TRUE), Alt(THEN_BY, FALSE)>>, FALSE))
            IN [err |-> "none",
                hasAttr |-> Len(orderBy) > 0,
                attr |-> IF Len(orderBy) > 0 THEN orderBy[1] ELSE "",
                direction |-> IF Includes(fullOrderBy[2], PascalASC)
                              THEN ASC ELSE DSC]

\* a prepare() that renames the verb but leaves the page size out
PrepareResult_noSize(method, args, size, attrs, orderBy) ==
    IF orderBy.err # "none" THEN [err |-> orderBy.err, method |-> method, args |-> args]
    ELSE IF Len(attrs) = 1 /\ orderBy.hasAttr /\ attrs[1] = orderBy.attr
    THEN [err |-> "none", method |-> "pageBy",
          args |-> <<Str(toCamelCase(attrs[1])), Str(orderBy.direction)>>]
    ELSE [err |-> "none", method |-> Replace(method, FIND_BY, "pageBy"), args |-> args]

\* the return statements of prepare(): [err, method, args], args being a new array
PrepareResult(method, args, size, attrs, orderBy) ==
    IF orderBy.err # "none" THEN [err |-> orderBy.err, method |-> method, args |-> args]
    ELSE IF Len(attrs) = 1 /\ orderBy.hasAttr /\ attrs[1] = orderBy.attr
    THEN [err |-> "none", method |-> "pageBy",
          args |-> <<Str(toCamelCase(attrs[1])), Str(orderBy.direction), Num(size)>>]
    ELSE [err |-> "none", method |-> Replace(method, FIND_BY, "pageBy"),
          args |-> Append(args, Num(size))]

\* prepare(rawStatement): attrs and orderBy are computed once, then the result
prepare(method, args, size) ==
    CHOOSE r \in {PrepareResult(method, args, size, attrs, orderBy) :
                     attrs \in {PrepareAttrs(method)},
                     orderBy \in {PrepareOrderBy(method)}} : TRUE

\* Paginator.validatePage of @decaf-ts/core
validatePage(page) == IF page < 1 THEN "PagingError" ELSE "none"

\* a statement object holds its args array by reference into the heap
StatementRef(clazz, method, argsRef, params) ==
    [class |-> clazz, method |-> method, args |-> argsRef, params |-> params]

\* the Query Descriptor a statement object denotes
Deref(st, h) == Query(st.class, st.method, h[st.args], st.params)

\* a shallow copy: the new object shares the args array of the original
CopyStatement_shared(st, h) == [statement |-> st, heap |-> h]

\* Object.assign({}, this.statement, {args: [...this.statement.args],
\* params: {...this.statement.params}}): a new object with a new args array
CopyStatement(st, h) ==
    [statement |-> [st EXCEPT !.args = Len(h) + 1], heap |-> Append(h, h[st.args])]

\* statement = this.prepare(statement): a new object with a new args array
PrepareStatement(st, h, size) ==
    LET r == prepare(st.method, h[st.args], size)
    IN [err |-> r.err,
        statement |-> [st EXCEPT !.method = r.method, !.args = Len(h) + 1],
        heap |-> Append(h, r.args)]

\* a zero-based page index
PushedArg_zeroBased(page, size) == Num(page - 1)

\* what page() appends to the statement's args: statement.args.push(page)
PushedArg(page, size) == Num(page)

\* arrays no live object refers to are collected: the paginator's statement
\* holds reference 1
Collect(h) == SubSeq(h, 1, 1)

Call(pc, page, err) == [pc |-> pc, page |-> page, err |-> err]

NoActiveCall == \A c \in 1..Len(calls) : calls[c].pc \in {"done", "failed"}

\* page(n) is called and suspends on Context.args
PageCall(n) ==
    /\ Len(calls) < MaxCalls
    /\ NoActiveCall
    /\ calls' = Append(calls, Call("ctx", n, "none"))
    /\ UNCHANGED <<stack, built, sent, ops, last, paginator, heap, response, result,
                   statement, history, observers, streamVars>>

\* page() resumes: copy the statement, prepare it unless already paged, push
\* the page, validate the page, and hand the request to the transport
PageBuild(c) ==
    /\ c \in 1..Len(calls)
    /\ calls[c].pc = "ctx"
    /\ \E copy \in {CopyStatement(paginator.statement, heap)} :
       \E prep \in {IF ~Includes(paginator.statement.method, "pageBy")
                    THEN PrepareStatement(copy.statement, copy.heap, paginator.size)
                    ELSE [err |-> "none", statement |-> copy.statement,
                          heap |-> copy.heap]} :
       \E pushed \in {[prep.heap EXCEPT ![prep.statement.args] =
                          Append(@, PushedArg(calls[c].page, paginator.size))]} :
          IF prep.err # "none"
          THEN /\ calls' = [calls EXCEPT ![c] = Call("failed", calls[c].page, prep.err)]
               /\ last' = Outcome("page", prep.err)
               /\ heap' = Collect(prep.heap)
               /\ UNCHANGED <<sent, ops>>
          ELSE IF validatePage(calls[c].page) # "none"
          THEN /\ calls' = [calls EXCEPT ![c] =
                               Call("failed", calls[c].page, validatePage(calls[c].page))]
               /\ last' = Outcome("page", validatePage(calls[c].page))
               /\ heap' = Collect(pushed)
               /\ UNCHANGED <<sent, ops>>
          ELSE /\ calls' = [calls EXCEPT ![c] = Call("sent", calls[c].page, "none")]
               /\ last' = Outcome("page", "pending")
               /\ heap' = Collect(pushed)
               /\ \E query \in {Deref(prep.statement, pushed)} :
                     Transport(toRequest(query),
                               Op("page", paginator.statement.class, "", <<>>,
                                  calls[c].page))
    /\ UNCHANGED <<stack, built, paginator, response, result, statement, history,
                   observers, streamVars>>

\* adapter.raw resolves, or rejects with the error of the transport
PageOutcomes == {"ok", "InternalError"}

\* a page() that records the page whatever the transport answered
PageResponse_always(c, outcome) ==
    /\ c \in 1..Len(calls)
    /\ calls[c].pc = "sent"
    /\ paginator' = [paginator EXCEPT !.currentPage = calls[c].page]
    /\ calls' = [calls EXCEPT ![c] = Call(IF outcome = "ok" THEN "done" ELSE "failed",
                                          calls[c].page,
                                          IF outcome = "ok" THEN "none" ELSE outcome)]
    /\ last' = Outcome("page", outcome)
    /\ UNCHANGED <<stack, built, sent, ops, heap, response, result, statement, history,
                   observers, streamVars>>

\* the transport answers: on success _currentPage becomes the page, on
\* failure the rejection propagates
PageResponse(c, outcome) ==
    /\ c \in 1..Len(calls)
    /\ calls[c].pc = "sent"
    /\ IF outcome = "ok"
       THEN /\ paginator' = [paginator EXCEPT !.currentPage = calls[c].page]
            /\ calls' = [calls EXCEPT ![c] = Call("done", calls[c].page, "none")]
       ELSE /\ calls' = [calls EXCEPT ![c] = Call("failed", calls[c].page, outcome)]
            /\ UNCHANGED paginator
    /\ last' = Outcome("page", outcome)
    /\ UNCHANGED <<stack, built, sent, ops, heap, response, result, statement, history,
                   observers, streamVars>>

\* the statements a paginator is created over: compiled statements with and
\* without an order-by clause, and a statement already in paged form
OrderedSimple ==
    [EmptyStatement(TestModel) EXCEPT
        !.hasWhere = TRUE, !.whereCondition = Leaf("name", "EQUAL", Str("test")),
        !.hasOrderBy = TRUE, !.orderBySelector = <<"name", ASC>>]
OrderedComplex ==
    [EmptyStatement(TestModel) EXCEPT
        !.hasWhere = TRUE,
        !.whereCondition = GroupCond(Leaf("name", "EQUAL", Str("test")), "AND",
                                     Leaf("id", "EQUAL", Num(1))),
        !.hasSelect = TRUE, !.selectSelector = <<"id">>,
        !.hasOrderBy = TRUE, !.orderBySelector = <<"id", ASC>>]
Unordered ==
    [EmptyStatement(TestModel) EXCEPT
        !.hasWhere = TRUE, !.whereCondition = Leaf("name", "EQUAL", Str("test"))]

PagedQueries(size) ==
    {build(OrderedSimple).query, build(OrderedComplex).query, build(Unordered).query,
     Query(TestModel, "pageBy", <<Str("name"), Str(ASC), Num(size)>>, <<>>)}

\* new HttpPaginator(adapter, query, size, clazz)
InitPage ==
    /\ \E size \in 1..MaxSize : \E q \in PagedQueries(size) :
          /\ paginator = [statement |-> StatementRef(q.class, q.method, 1, q.params),
                          size |-> size, currentPage |-> 0]
          /\ heap = <<q.args>>
    /\ calls = <<>>
    /\ stack = <<>>
    /\ built = Built("idle", NoQuery)
    /\ sent = <<>>
    /\ ops = <<>>
    /\ last = Outcome("none", "none")
    /\ response = NoResponse
    /\ result = NoResult
    /\ statement = EmptyStatement(TestModel)
    /\ history = <<>>
    /\ observers = <<>>
    /\ InitStream

NextPage ==
    \/ \E n \in 0..MaxPage : PageCall(n)
    \/ \E c \in 1..MaxCalls : PageBuild(c)
    \/ \E c \in 1..MaxCalls : \E o \in PageOutcomes : PageResponse(c, o)

SpecPage == InitPage /\ [][NextPage]_vars

\* page(n) is called while other page() calls of the paginator are suspended
\* on Context.args or on the transport
PageCallOverlapping(n) ==
    /\ Len(calls) < MaxOverlap
    /\ calls' = Append(calls, Call("ctx", n, "none"))
    /\ UNCHANGED <<stack, built, sent, ops, last, paginator, heap, response, result,
                   statement, history, observers, streamVars>>

NextOverlap ==
    \/ \E n \in 0..MaxPage : PageCallOverlapping(n)
    \/ \E c \in 1..MaxOverlap : PageBuild(c)
    \/ \E c \in 1..MaxOverlap : \E o \in PageOutcomes : PageResponse(c, o)

SpecOverlap == InitPage /\ [][NextOverlap]_vars

(***************************************************************************)
(* Selector specification: the caller sets the selectors of a Statement in *)
(* any order, then executes it (build, then raw)                           *)
(***************************************************************************)
\* a selector call stores its argument in the statement's field
SetSelector(name, st) ==
    /\ built.status = "idle"
    /\ Len(history) < MaxSetters
    /\ statement' = st
    /\ history' = Append(history, name)
    /\ UNCHANGED <<stack, built, sent, ops, last, paginator, heap, calls, response,
                   result, observers, streamVars>>

Where(cond) ==
    SetSelector("where", [statement EXCEPT !.hasWhere = TRUE, !.whereCondition = cond])
Select(attrs) ==
    SetSelector("select", [statement EXCEPT !.hasSelect = TRUE, !.selectSelector = attrs])
OrderBy(attr, direction) ==
    SetSelector("orderBy", [statement EXCEPT !.hasOrderBy = TRUE,
                                             !.orderBySelector = <<attr, direction>>])
GroupBy(attr) == SetSelector("groupBy", [statement EXCEPT !.groupBySelector = attr])
Limit(n) == SetSelector("limit", [statement EXCEPT !.limitSelector = n])
Offset(n) == SetSelector("offset", [statement EXCEPT !.offsetSelector = n])

\* Statement.execute on the statement with its selectors
ExecuteStatement ==
    /\ built.status = "idle"
    /\ \E b \in {build(statement)} :
          IF b.err # "none"
          THEN /\ built' = Built(b.err, NoQuery)
               /\ last' = Outcome("statement", b.err)
               /\ UNCHANGED <<sent, ops>>
          ELSE /\ built' = Built("ok", b.query)
               /\ last' = Outcome("statement", "pending")
               /\ Transport(toRequest(b.query),
                            Op("statement", TestModel, "", <<>>, 0))
    /\ UNCHANGED <<stack, paginator, heap, calls, response, result, statement, history,
                   observers, streamVars>>

NextSelectors ==
    \/ Where(Leaf("name", "EQUAL", Str("test")))
    \/ Select(<<"id", "name">>)
    \/ \E direction \in {ASC, DSC} : OrderBy("name", direction)
    \/ GroupBy("name")
    \/ Limit(10)
    \/ Offset(5)
    \/ ExecuteStatement

SpecSelectors == InitCommon /\ [][NextSelectors]_vars

(***************************************************************************)
(* URL specification: adapter.url(tableName, pathParams, queryParams) on a *)
(* named-params map the caller fills entry by entry                        *)
(***************************************************************************)
\* the entries a caller puts into the map, by key
ParamValues ==
    [limit |-> {Num(10)}, skip |-> {Num(5)}, page |-> {Num(2)},
     q |-> {Str("John Doe"), Str("a&b")}, direction |-> {Str("asc")}]

\* params[key] = value on a map without that key: a new last entry
SetParam(k, v) ==
    /\ result = NoResult
    /\ Len(built.query.params) < MaxParams
    /\ \A i \in 1..Len(built.query.params) : built.query.params[i].k # k
    /\ built' = [built EXCEPT !.query.params = Append(@, Param(k, v))]
    /\ UNCHANGED <<stack, sent, ops, last, paginator, heap, calls, response, result,
                   statement, history, observers, streamVars>>

\* adapter.url(tableName, pathParams, queryParams)
Url(pathParams) ==
    /\ result = NoResult
    /\ \E u \in {url(built.query.class, pathParams, built.query.params)} :
          result' = Returned("url", Str(u))
    /\ built' = [built EXCEPT !.query.args = pathParams]
    /\ last' = Outcome("url", "ok")
    /\ UNCHANGED <<stack, sent, ops, paginator, heap, calls, response, statement,
                   history, observers, streamVars>>

InitUrl ==
    /\ built = Built("ok", Query(TableString("search"), "", <<>>, <<>>))
    /\ stack = <<>>
    /\ sent = <<>>
    /\ ops = <<>>
    /\ last = Outcome("none", "none")
    /\ paginator = NoPaginator
    /\ heap = <<>>
    /\ calls = <<>>
    /\ response = NoResponse
    /\ result = NoResult
    /\ statement = EmptyStatement(TestModel)
    /\ history = <<>>
    /\ observers = <<>>
    /\ InitStream

NextUrl ==
    \/ \E k \in DOMAIN ParamValues : \E v \in ParamValues[k] : SetParam(k, v)
    \/ \E pathParams \in {<<>>, <<Str("John Doe")>>} : Url(pathParams)

SpecUrl == InitUrl /\ [][NextUrl]_vars

(***************************************************************************)
(* Observer specification: RestService.observe, unObserve, updateObservers *)
(***************************************************************************)
Observers == 1..MaxObservers

\* an observe that pushes without looking the observer up
Observe_unchecked(o) ==
    /\ observers' = Append(observers, o)
    /\ Len(observers) <= MaxObservers
    /\ result' = Returned("observe", Undefined)
    /\ UNCHANGED <<stack, built, sent, ops, last, paginator, heap, calls, response,
                   statement, history, streamVars>>

\* observe(observer)
Observe(o) ==
    /\ IF \E i \in 1..Len(observers) : observers[i] = o
       THEN /\ result' = Raised("observe", Err("InternalError",
                                         BaseErrorMessage("InternalError",
                                                          "Observer already registered")))
            /\ UNCHANGED observers
       ELSE /\ observers' = Append(observers, o)
            /\ result' = Returned("observe", Undefined)
    /\ UNCHANGED <<stack, built, sent, ops, last, paginator, heap, calls, response,
                   statement, history, streamVars>>

\* this.observers.splice(index, 1)
Splice(s, index) == SubSeq(s, 1, index - 1) \o SubSeq(s, index + 1, Len(s))

\* unObserve(observer)
UnObserve(o) ==
    /\ IF \E i \in 1..Len(observers) : observers[i] = o
       THEN /\ observers' = Splice(observers,
                                   CHOOSE i \in 1..Len(observers) :
                                       /\ observers[i] = o
                                       /\ \A j \in 1..(i - 1) : observers[j] # o)
            /\ result' = Returned("unObserve", Undefined)
       ELSE /\ result' = Raised("unObserve", Err("InternalError",
                                           BaseErrorMessage("InternalError",
                                                            "Failed to find Observer")))
            /\ UNCHANGED observers
    /\ UNCHANGED <<stack, built, sent, ops, last, paginator, heap, calls, response,
                   statement, history, streamVars>>

\* updateObservers(...args): refresh is called on every registered observer
UpdateObservers ==
    /\ result' = Returned("updateObservers", Arr([i \in 1..Len(observers) |-> Num(observers[i])]))
    /\ UNCHANGED <<stack, built, sent, ops, last, paginator, heap, calls, response,
                   statement, history, observers, streamVars>>

NextObservers ==
    \/ \E o \in Observers : Observe(o)
    \/ \E o \in Observers : UnObserve(o)
    \/ UpdateObservers

SpecObservers == InitCommon /\ [][NextObservers]_vars

(***************************************************************************)
(* Stream specification: dispatchers sharing ServerEventConnectors         *)
(***************************************************************************)
\* the messages a server sends: a well-formed event, one with a payload, an
\* array too short, an array whose name is no string, and a keep-alive text
RawEvents ==
    {Arr(<<Str("users"), Str("create"), Num(1)>>),
     Arr(<<Str("users"), Str("create")>>),
     Arr(<<Num(1), Str("create"), Num(1)>>),
     Str("ping")}

\* static open(url): the cached connector, or a new one put into the cache
open(u) ==
    IF cache[u] # 0 THEN [connector |-> cache[u], connectors |-> connectors, cache |-> cache]
    ELSE [connector |-> Len(connectors) + 1,
          connectors |-> Append(connectors, Connector(u, FALSE, 0, {}, FALSE)),
          cache |-> [cache EXCEPT ![u] = Len(connectors) + 1]]

\* connector.startListening(handlers): nothing when es exists, else es is
\* created listening with these handlers and the interval timer is set
startListening(cs, c, handlers) ==
    IF cs[c].es THEN cs
    ELSE [cs EXCEPT ![c] = Connector(cs[c].url, TRUE, handlers, cs[c].listeners, TRUE)]

\* connector.close(): nothing without es or with listeners, else the
\* connection is aborted and the connector leaves the cache
close(cs, ch, c) ==
    IF ~cs[c].es THEN [connectors |-> cs, cache |-> ch]
    ELSE IF Cardinality(cs[c].listeners) > 0 THEN [connectors |-> cs, cache |-> ch]
    ELSE [connectors |-> [cs EXCEPT ![c] = Connector(cs[c].url, FALSE, cs[c].handlers,
                                                      {}, cs[c].timer)],
          cache |-> [ch EXCEPT ![cs[c].url] = 0]]

\* dispatcher.startListening(): throws before initialize(), else opens the
\* connector of its URL and starts listening on it
StartListeningBody(d, initialized) ==
    IF ~initialized
    THEN /\ result' = Raised("startListening",
                             Err("Error", "Cannot start listening before call initialize()"))
         /\ UNCHANGED <<cache, connectors, dispatchers>>
    ELSE /\ Len(connectors) < MaxConnectors \/ cache[listeningUrl(d)] # 0
         /\ \E o \in {open(listeningUrl(d))} :
               /\ cache' = o.cache
               /\ connectors' = startListening(o.connectors, o.connector, d)
               /\ dispatchers' = [dispatchers EXCEPT
                                     ![d] = Dispatcher(TRUE, TRUE, o.connector, FALSE)]
         /\ result' = Returned("startListening", Undefined)

\* dispatcher.initialize(): initialized = true, then startListening()
Initialize(d) ==
    /\ StartListeningBody(d, TRUE)
    /\ UNCHANGED <<stack, built, sent, ops, last, paginator, heap, calls, response,
                   statement, history, observers, emitted, delivered>>

\* dispatcher.startListening() called by the application
StartListening(d) ==
    /\ StartListeningBody(d, dispatchers[d].initialized)
    /\ UNCHANGED <<stack, built, sent, ops, last, paginator, heap, calls, response,
                   statement, history, observers, emitted, delivered>>

\* dispatcher.close(): this.connector?.close()
Close(d) ==
    /\ IF dispatchers[d].connector = 0
       THEN UNCHANGED <<cache, connectors>>
       ELSE \E r \in {close(connectors, cache, dispatchers[d].connector)} :
               /\ connectors' = r.connectors
               /\ cache' = r.cache
    /\ dispatchers' = [dispatchers EXCEPT ![d].closed = TRUE]
    /\ result' = Returned("close", Undefined)
    /\ UNCHANGED <<stack, built, sent, ops, last, paginator, heap, calls, response,
                   statement, history, observers, emitted, delivered>>

\* the setInterval callback of a connector fires: this.close()
Timer(c) ==
    /\ c \in 1..Len(connectors)
    /\ connectors[c].timer
    /\ \E r \in {close(connectors, cache, c)} :
          /\ connectors' = r.connectors
          /\ cache' = r.cache
    /\ UNCHANGED <<stack, built, sent, ops, last, paginator, heap, calls, response, result,
                   statement, history, observers, dispatchers, emitted, delivered>>

\* the dispatchers that started listening on a URL and have not called close()
Listening(u) ==
    {d \in Dispatchers :
        dispatchers[d].listening /\ ~dispatchers[d].closed /\ listeningUrl(d) = u}

\* the server sends a message on the open connection of a URL: onMessage
\* parses it and calls the onEvent of the handlers es.listen was given
Message(u, raw) ==
    /\ Len(emitted) < MaxEvents
    /\ \E c \in 1..Len(connectors) : connectors[c].es /\ connectors[c].url = u
    /\ emitted' = Append(emitted, [url |-> u, raw |-> raw, listening |-> Listening(u)])
    /\ \E event \in {parseReceivedEvent(raw)} :
          delivered' = [d \in Dispatchers |->
                           IF /\ event # Null
                              /\ \E c \in 1..Len(connectors) :
                                    /\ connectors[c].es
                                    /\ connectors[c].url = u
                                    /\ connectors[c].handlers = d
                           THEN Append(delivered[d], Len(emitted) + 1)
                           ELSE delivered[d]]
    /\ UNCHANGED <<stack, built, sent, ops, last, paginator, heap, calls, response, result,
                   statement, history, observers, cache, connectors, dispatchers>>

NextStream ==
    \/ \E d \in Dispatchers : Initialize(d)
    \/ \E d \in Dispatchers : StartListening(d)
    \/ \E d \in Dispatchers : Close(d)
    \/ \E c \in 1..MaxConnectors : Timer(c)
    \/ \E u \in Urls : \E raw \in RawEvents : Message(u, raw)

SpecStream == InitCommon /\ [][NextStream]_vars

(***************************************************************************)
(* Response specification: one response parsed by the AxiosHttpAdapter or  *)
(* by the NestJSResponseParser, or one error classified by parseError      *)
(***************************************************************************)
\* the operation kinds parseResponse is called with; "other" is outside the
\* known set
Methods ==
    {"create", "read", "update", "delete", "createAll", "readAll", "updateAll",
     "deleteAll", "find", "page", "findBy", "listBy", "pageBy", "findOneBy",
     "statement", "countOf", "maxOf", "minOf", "avgOf", "sumOf", "distinctOf",
     "groupOf", "other"}

Statuses == {Undefined} \cup {Num(n) : n \in {100, 200, 204, 302, 400, 404, 409, 422, 500}}

\* the error field of a response: absent, an Error, a string
ResponseErrors ==
    {Undefined, ErrorObj("NotFoundError: no such record"), ErrorObj("boom"),
     Str("ConflictError")}

\* records as the server sends them
Product(id, name) == Obj(<<Param("id", Num(id)), Param("name", Str(name))>>)
\* a groupOf body: arrays of records by group, and a value that is no array
Grouped ==
    Obj(<<Param("Books", Arr(<<Product(2, "Book A"), Product(5, "Book B")>>)),
          Param("Electronics", Arr(<<Product(1, "Laptop")>>)),
          Param("total", Num(3))>>)

Bodies ==
    {Num(10), Arr(<<Str("A"), Str("B"), Str("C")>>), Product(1, "Laptop"),
     Arr(<<Product(1, "Laptop"), Product(2, "Book A")>>), Grouped, Null}

\* the words error messages are made of
Words == {ErrorNames[k] : k \in 1..Len(ErrorNames)}
         \cup {StatusTokens[k] : k \in 1..Len(StatusTokens)}
         \cup {"InternalError", "boom"}
Messages == {JoinStr(ws, " ") : ws \in UNION {[1..n -> Words] : n \in 0..MaxTokens}}

\* the adapter parses the response of an operation
ParseResponse(clazz, method, res) ==
    /\ result = NoResult
    /\ response' = res
    /\ \E r \in {parseResponse(clazz, method, res)} :
          /\ result' = r
          /\ last' = Outcome(method, IF r.kind = "error" THEN r.name ELSE "ok")
    /\ UNCHANGED <<stack, built, sent, ops, paginator, heap, calls, statement, history,
                   observers, streamVars>>

\* the configured NestJSResponseParser parses the response of an operation
Parse(method, res) ==
    /\ result = NoResult
    /\ response' = res
    /\ \E r \in {parse(method, res)} :
          /\ result' = r
          /\ last' = Outcome(method, IF r.kind = "error" THEN r.name ELSE "ok")
    /\ UNCHANGED <<stack, built, sent, ops, paginator, heap, calls, statement, history,
                   observers, streamVars>>

\* the configured parser is the plain ResponseParser
ParseDefault(method, res) ==
    /\ result = NoResult
    /\ response' = res
    /\ result' = ResponseParserParse(method, res)
    /\ last' = Outcome(method, "ok")
    /\ UNCHANGED <<stack, built, sent, ops, paginator, heap, calls, statement, history,
                   observers, streamVars>>

\* a caller classifies an error, given as an Error or as its message
ParseError(err) ==
    /\ result = NoResult
    /\ response' = Response(Undefined, err, Undefined, Undefined, Undefined)
    /\ \E e \in {parseError(err)} :
          /\ result' = Raised("parseError", e)
          /\ last' = Outcome("parseError", e.name)
    /\ UNCHANGED <<stack, built, sent, ops, paginator, heap, calls, statement, history,
                   observers, streamVars>>

\* one call per behaviour: nothing is enabled once the caller has its result
NextResponse ==
    /\ result = NoResult
    /\ \/ \E method \in Methods : \E status \in Statuses : \E error \in ResponseErrors :
          \E body \in Bodies :
             ParseResponse(TestModel, method,
                           Response(status, error, body, Undefined, Undefined))
       \/ \E method \in Methods : \E status \in Statuses : \E raw \in Bodies :
          \E data \in {Product(1, "Laptop"), Null} :
             Parse(method, Response(status, Undefined, Undefined, raw, data))
       \/ \E method \in Methods : \E status \in Statuses : \E body \in Bodies :
             ParseDefault(method, Response(status, Undefined, body, Undefined, Undefined))
       \/ \E msg \in Messages : \E err \in {Str(msg), ErrorObj(msg)} : ParseError(err)

SpecResponse == InitCommon /\ [][NextResponse]_vars

(***************************************************************************)
(* Properties                                                              *)
(***************************************************************************)
\* the path segments of a rendered URL: what follows the origin, up to the
\* query or the fragment, cut at every "/"
UrlPathSegments(u) ==
    LET origin == Config.protocol \o "://" \o Config.host
        rest == SubSeq(u, Len(origin) + 1, Len(u))
        q == IndexOf("?", rest)
        f == IndexOf("#", rest)
        cut == IF q = 0 THEN f ELSE IF f = 0 THEN q ELSE IF q < f THEN q ELSE f
        path == IF cut = 0 THEN rest ELSE SubSeq(rest, 1, cut - 1)
    IN Tail(SplitStr(path, "/"))

RECURSIVE StrToNum(_)
\* the number a decimal string denotes
StrToNum(s) ==
    IF s = "" THEN 0
    ELSE 10 * StrToNum(SubSeq(s, 1, Len(s) - 1)) + (IndexOf(Ch(s, Len(s)), Digits) - 1)

\* the statement compiled, from a tree the builder made
Compiled == Len(stack) = 1 /\ built.status = "ok"

\* C1: the args of a compiled Condition Tree hold exactly one entry per
\* comparison leaf, the Nth entry being the comparison value of the Nth leaf
\* in left-to-right traversal.
C1_ArgPerLeaf ==
    Compiled =>
        LET leaves == LeavesOf(stack[1])
        IN built.query.args = [i \in 1..Len(leaves) |-> leaves[i].comparison]

\* the keyword a leaf operator is rendered with, in the token's casing
ExpectedSuffix(op) ==
    CASE op = "EQUAL" -> ""
      [] op = "DIFFERENT" -> "Diff"
      [] op = "REGEXP" -> "Matches"
      [] op = "BIGGER" -> "Bigger"
      [] op = "BIGGER_EQ" -> "BiggerThanEqual"
      [] op = "SMALLER" -> "Less"
      [] op = "SMALLER_EQ" -> "LessThanEqual"
      [] op = "IN" -> "In"

RECURSIVE ExpectedRendering(_)
\* the rendering of a tree: attribute then keyword for a leaf, left, the
\* operator and right for a group, no parentheses
ExpectedRendering(c) ==
    IF IsGroup(c)
    THEN ExpectedRendering(c.attr1)
         \o (IF c.operator = "AND" THEN "And" ELSE "Or")
         \o ExpectedRendering(c.comparison)
    ELSE ToUpperCh(Ch(c.attr1, 1)) \o SubSeq(c.attr1, 2, Len(c.attr1))
         \o ExpectedSuffix(c.operator)

\* the condition age > 21 AND age < 25
AgeBetween ==
    GroupCond(Leaf("age", "BIGGER", Num(21)), "AND", Leaf("age", "SMALLER", Num(25)))

\* C2: the method token of a compiled tree is the find verb followed by the
\* tree's rendering in camel case: a leaf is its attribute (EQUAL) or its
\* attribute and the operator's keyword, a group is left, And/Or, right with
\* no parentheses; age > 21 AND age < 25 gives findByAgeBiggerAndAgeLess with
\* args [21, 25].
C2_Rendering ==
    Compiled =>
        /\ built.query.method = "findBy" \o ExpectedRendering(stack[1])
        /\ stack[1] = AgeBetween =>
              /\ built.query.method = "findByAgeBiggerAndAgeLess"
              /\ built.query.args = <<Num(21), Num(25)>>

C2_Witness == Compiled /\ stack[1] = AgeBetween /\ Len(sent) = 1

\* the tree holds a node whose operator is neither a leaf nor a group operator
HasUnknownOperator(c) == ConditionOperators(c) \cap UnknownOperators # {}

\* C3: executing a statement whose Condition Tree holds, at any depth, a
\* node with an unknown operator fails with QueryError and no request
\* reaches the transport.
C3_UnknownOperatorFails ==
    (Len(stack) = 1 /\ built.status # "idle" /\ HasUnknownOperator(stack[1])) =>
        /\ built.status = "QueryError"
        /\ last = Outcome("statement", "QueryError")
        /\ sent = <<>>

C3_Witness ==
    /\ Len(stack) = 1
    /\ IsGroup(stack[1])
    /\ HasUnknownOperator(stack[1])
    /\ built.status = "QueryError"

\* the path segments of the i-th request after the resource
IdSegments(i) == Tail(UrlPathSegments(sent[i].url))

\* C4: a single-record request on a model with a composed key carries one
\* path segment per key component, in declared order; on a model with a
\* plain key the id is exactly one segment.
C4_SegmentPerComponent ==
    \A i \in 1..Len(sent) :
        ops[i].op \in {"create", "read", "update", "delete"} =>
            IdSegments(i) = (IF ops[i].clazz.composed THEN ops[i].key ELSE <<ops[i].id>>)

\* the verb each operation is issued with
ExpectedVerb(op) ==
    CASE op = "create" -> "POST"
      [] op = "read" -> "GET"
      [] op = "update" -> "PUT"
      [] op = "delete" -> "DELETE"

\* the verb and the presence of a body of every request are those of its operation
VerbsAndBodies ==
    \A i \in 1..Len(sent) :
        /\ sent[i].method = ExpectedVerb(ops[i].op)
        /\ sent[i].hasData = (ops[i].op \in {"create", "update"})
        /\ ~sent[i].hasData => sent[i].data = ""

C7_StatementPath ==
    \A i \in 1..Len(sent) :
        ops[i].op = "statement" =>
            /\ sent[i].method = "GET"
            /\ LET segs == UrlPathSegments(sent[i].url)
               IN [k \in 1..Len(segs) |-> PercentDecode(segs[k])] =
                      <<"test-model", "statement", built.query.method>>
                      \o [k \in 1..Len(built.query.args) |->
                             ValToString(built.query.args[k])]

\* the path segments of the i-th request after the method token
ArgSegments(i) == SubSeq(UrlPathSegments(sent[i].url), 4, Len(UrlPathSegments(sent[i].url)))

\* C8: whatever characters the args hold, the URL has exactly one path
\* segment per arg after the method token, and the Nth segment decodes to the
\* Nth arg, an array being its elements joined with commas.
C8_SegmentPerArg ==
    \A i \in 1..Len(sent) :
        ops[i].op = "statement" =>
            /\ Len(ArgSegments(i)) = Len(built.query.args)
            /\ \A k \in 1..Len(built.query.args) :
                  PercentDecode(ArgSegments(i)[k]) = ValToString(built.query.args[k])

RECURSIVE PathEndFrom(_, _)
\* the position before the first "?" or "#" of u at or after i, Len(u) when none
PathEndFrom(u, i) ==
    IF i > Len(u) THEN Len(u)
    ELSE IF Ch(u, i) \in {"?", "#"} THEN i - 1
    ELSE PathEndFrom(u, i + 1)

\* the path of a rendered URL: the URL up to its query or fragment
UrlPath(u) == SubSeq(u, 1, PathEndFrom(u, 1))

RECURSIVE LastSlash(_, _)
\* the position of the last "/" of p at or before e
LastSlash(p, e) ==
    IF e = 0 THEN 0 ELSE IF Ch(p, e) = "/" THEN e ELSE LastSlash(p, e - 1)

\* the number in the path segment of p that ends at position e
NumberEndingAt(p, e) == StrToNum(SubSeq(p, LastSlash(p, e) + 1, e))

\* the numbers in the last two path segments of a URL: <<size, position>>
LastNumbers(u) ==
    CHOOSE r \in {<<NumberEndingAt(p, LastSlash(p, Len(p)) - 1), NumberEndingAt(p, Len(p))>> :
                     p \in {UrlPath(u)}} : TRUE

RECURSIVE SentFrom(_)
\* <<size, position>> of every request from the i-th on, in the order sent
SentFrom(i) ==
    IF i > Len(sent) THEN <<>> ELSE <<LastNumbers(sent[i].url)>> \o SentFrom(i + 1)

SourceStatement == Deref(paginator.statement, heap)

\* C10: no step of any page(n) call changes the paginator's source
\* statement: its method token, args and params stay what they were at
\* construction.
C10_SourceUnchanged == [][SourceStatement' = SourceStatement]_vars

C10_Witness ==
    /\ Len(sent) >= 2
    /\ \E c \in 1..Len(calls) : calls[c].pc = "done"
    /\ \E c \in 1..Len(calls) : calls[c].pc = "failed" /\ calls[c].err = "PagingError"
    /\ Includes(paginator.statement.method, "pageBy")

\* C11: across sequential page(n) calls on one paginator, whatever the page
\* numbers, no step leaves currentPage lower than it was.
C11_CurrentPageOnlyIncreases ==
    [][paginator'.currentPage >= paginator.currentPage]_vars

\* the args of the source statement as path segments
SourceArgs == [k \in 1..Len(SourceStatement.args) |-> ValToString(SourceStatement.args[k])]

\* the source statement is already in paginated form
Paginated == Includes(SourceStatement.method, "pageBy")

NotPaginatable ==
    \/ ~(StartsAt(SourceStatement.method, "findBy", 1)
         \/ StartsAt(SourceStatement.method, "pageBy", 1))
    \/ (~Paginated /\ ~Includes(SourceStatement.method, "OrderBy"))

\* C13: on a source statement that is not in a paginatable form, every
\* page(n) call fails with UnsupportedError and no request reaches the
\* transport.
C13_UnsupportedError ==
    NotPaginatable =>
        /\ sent = <<>>
        /\ \A c \in 1..Len(calls) :
              calls[c].pc # "ctx" =>
                  calls[c].pc = "failed" /\ calls[c].err = "UnsupportedError"

\* the page() calls that have run up to their request or their failure
Resumed == SelectSeq(calls, LAMBDA c : c.pc # "ctx")

\* the page() calls that handed a request to the transport: those not
\* rejected locally (page below 1, statement that cannot be prepared)
Requested == SelectSeq(Resumed, LAMBDA c : c.err \notin {"PagingError", "TypeError"})

\* C14 as stated: every page(n) call issues exactly one transport call,
\* whether it succeeds or fails: after k page calls the transport has been
\* invoked exactly k times.
C14_OneCallPerPageCall == Len(sent) = Len(Resumed)

\* C14: every page(n) call that gets as far as a request (valid page,
\* statement that can be prepared) issues exactly one transport call, whether
\* the transport then succeeds or fails, and a failed request is not
\* re-issued; a call rejected before that issues none.
C14_OneCallPerRequest ==
    /\ Len(sent) = Len(Requested)
    /\ \A j \in 1..Len(sent) : ops[j].op = "page" /\ ops[j].page = Requested[j].page

C14_Witness ==
    /\ Len(calls) = 3
    /\ calls[1].pc = "failed" /\ calls[1].err = "InternalError"
    /\ calls[2].pc = "failed" /\ calls[2].err = "PagingError"
    /\ calls[3].pc = "done"
    /\ Len(sent) = 2

\* the response parsed last carries a status outside 200..299
NonSuccess == response.status.t # "num" \/ ~(response.status.n >= 200 /\ response.status.n < 300)

\* C15: for every operation kind, a response whose status is not in 200..299
\* (a 1xx or a 3xx status included) makes the parser raise an error and return
\* no result, whatever the body is
C15_NonSuccessRaises ==
    (result.by \in {"parseResponse", "parse"} /\ NonSuccess) => result.kind = "error"

\* the taxonomy classes
Taxonomy == {ErrorNames[k] : k \in 1..Len(ErrorNames)} \cup {"InternalError"}
\* the class a status code stands for
StatusClass(n) ==
    CASE n = 404 -> "NotFoundError"
      [] n = 409 -> "ConflictError"
      [] n = 400 -> "BadRequestError"
      [] n = 422 -> "ValidationError"
      [] OTHER -> "InternalError"

\* C16: for every response with status >= 400, with or without an error field,
\* the parser raises a taxonomy class: the class of the error message when the
\* response carries one, otherwise the class of the status code (404 NotFound,
\* 409 Conflict, 400 BadRequest, 422 Validation, any other status Internal)
C16_ClassifiedError ==
    (result.by \in {"parseResponse", "parse"} /\ IsErrorStatus(response.status)) =>
        /\ result.kind = "error"
        /\ result.name \in Taxonomy
        /\ result.name = (IF Truthy(response.error)
                          THEN ClassifyFrom(response.error.s, 1)
                          ELSE StatusClass(response.status.n))

\* the taxonomy in the fixed order of the classification
C17_Order ==
    <<"NotFound", "Conflict", "BadRequest", "Validation", "Query", "Paging",
      "Unsupported", "Migration", "Observer", "Authorization", "Forbidden",
      "Connection", "Serialization">>
\* the positions of the classes a message carries a token of: the class name,
\* or the status code of the class for the four classes that have one
C17_Matching(msg) ==
    {k \in 1..Len(C17_Order) :
        \/ Includes(msg, C17_Order[k] \o "Error")
        \/ (k <= 4 /\ Includes(msg, <<"404", "409", "400", "422">>[k]))}

C18_FailureIsClassified ==
    (result.by \in CrudKeys \cup BulkKeys /\ IsRejected(response)) =>
        /\ result.kind = "error"
        /\ result.name \in Taxonomy
        /\ result.name = ClassifyFrom(response.error.s, 1)
        /\ Includes(result.message, response.error.s)

\* the response parsed last is a success response
Success == response.status.t = "num" /\ response.status.n >= 200 /\ response.status.n < 300

\* C19: for the single-record and bulk CRUD kinds, the scalar aggregates
\* (countOf, maxOf, minOf, avgOf, sumOf) and distinctOf, parseResponse returns
\* the body of a success response unchanged: not hydrated, not wrapped
C19_BodyUnchanged ==
    (/\ result.by = "parseResponse"
     /\ last.op \in {"create", "read", "update", "delete", "createAll", "readAll",
                    "updateAll", "deleteAll", "countOf", "maxOf", "minOf", "avgOf",
                    "sumOf", "distinctOf"}
     /\ Success) => (result.kind = "value" /\ result.value = response.body)

\* a countOf body 10 returned as the number 10
C19_Witness ==
    /\ result.by = "parseResponse"
    /\ last.op = "countOf"
    /\ response.status = Num(200)
    /\ response.body = Num(10)
    /\ result.value = Num(10)

\* C20: for groupOf and a success response whose body is a map, parseResponse
\* returns a map with the same keys; under a key whose value is an array, an
\* array of the same length and order whose elements are the records hydrated
\* into the model class; every other value unchanged
C20_GroupsHydrated ==
    (/\ result.by = "parseResponse"
     /\ last.op = "groupOf"
     /\ Success
     /\ response.body.t = "obj") =>
        /\ result.kind = "value"
        /\ result.value.t = "obj"
        /\ Len(result.value.a) = Len(response.body.a)
        /\ \A i \in 1..Len(response.body.a) :
              \A b \in {response.body.a[i]} : \A r \in {result.value.a[i]} :
                 /\ r.k = b.k
                 /\ b.v.t # "arr" => r.v = b.v
                 /\ b.v.t = "arr" =>
                       /\ r.v.t = "arr"
                       /\ Len(r.v.a) = Len(b.v.a)
                       /\ \A j \in 1..Len(b.v.a) :
                             /\ r.v.a[j].t = "inst"
                             /\ r.v.a[j].s = "TestModel"
                             /\ r.v.a[j].a = b.v.a[j].a

\* the groups Books (two records), Electronics (one record) and the number
\* total: two and one instances of the model, the number as it was
C20_Witness ==
    /\ result.by = "parseResponse"
    /\ last.op = "groupOf"
    /\ response.status = Num(200)
    /\ response.body = Grouped
    /\ result.value.a[1].k = "Books"
    /\ Len(result.value.a[1].v.a) = 2
    /\ result.value.a[1].v.a[2] = Inst(TestModel, Product(5, "Book B"))
    /\ result.value.a[3] = Param("total", Num(3))

\* C21: for an operation kind outside the known set and a success response,
\* the parser returns the whole response object unchanged, not its body, and
\* raises no error
C21_UnknownKindReturnsResponse ==
    (/\ result.by \in {"parseResponse", "ResponseParser.parse"}
     /\ last.op = "other"
     /\ Success) =>
        /\ result.kind = "value"
        /\ result.value.t = "obj"
        /\ result.value.a =
              SelectSeq(<<Param("status", response.status), Param("error", response.error),
                          Param("body", response.body)>>,
                        LAMBDA p : p.v # Undefined)

\* the response {status: 200, body: 10} of an unknown kind handed back whole
C21_Witness ==
    /\ result.by = "parseResponse"
    /\ last.op = "other"
    /\ response.status = Num(200)
    /\ response.body = Num(10)
    /\ result.value = Obj(<<Param("status", Num(200)), Param("body", Num(10))>>)

\* C22: the method token holds the clauses in the order filter, select,
\* orderBy, groupBy, whatever order the selectors were set in; an absent
\* selector leaves no clause, and with no condition the token starts with the
\* bare find verb
C22_ClauseOrder ==
    (built.status = "ok" /\ Len(sent) = 1) =>
        built.query.method =
            "findBy"
            \o (IF statement.hasWhere THEN "Name" ELSE "")
            \o (IF statement.hasSelect THEN "SelectIdAndName" ELSE "")
            \o (IF statement.hasOrderBy
                THEN "OrderByName" \o (IF statement.orderBySelector[2] = "asc"
                                       THEN "Asc" ELSE "Desc")
                ELSE "")
            \o (IF statement.groupBySelector # "" THEN "GroupByName" ELSE "")

\* the selectors set in the order groupBy, orderBy, select, where
C22_Witness ==
    /\ history = <<"groupBy", "orderBy", "select", "where">>
    /\ built.status = "ok"
    /\ built.query.method = "findByNameSelectIdAndNameOrderByNameAscGroupByName"

\* no condition and no selector but a limit: the bare find verb
C22_WitnessBare ==
    /\ history = <<"limit">>
    /\ built.status = "ok"
    /\ built.query.method = "findBy"

\* the key=value pairs of a URL's query string, and the key of a pair
QueryPairs(u) ==
    IF IndexOf("?", u) = 0 \/ IndexOf("?", u) = Len(u) THEN <<>>
    ELSE SplitStr(SubSeq(u, IndexOf("?", u) + 1, Len(u)), "&")

PairKey(pair) ==
    IF IndexOf("=", pair) = 0 THEN pair ELSE SubSeq(pair, 1, IndexOf("=", pair) - 1)

SpacedParams == {i \in 1..Len(built.query.params) :
                    built.query.params[i].v.t = "str" /\ Includes(built.query.params[i].v.s, " ")}

\* C24: url() renders every space of a query-string value and of a path
\* value as %20 and never as +: "John Doe" appears as John%20Doe.
C24_SpaceIsPercent20 ==
    result.by = "url" =>
        /\ ~Includes(result.value.s, "+")
        /\ ~Includes(result.value.s, " ")
        /\ \A i \in SpacedParams :
              Includes(result.value.s, built.query.params[i].k \o "=John%20Doe")
        /\ Len(built.query.args) > 0 => Includes(result.value.s, "/search/John%20Doe")

Registered(o) == \E i \in 1..Len(observers) : observers[i] = o

RaisedInternalError(r, by) ==
    r.by = by /\ r.kind = "error" /\ r.name = "InternalError"

\* C26: observe(o) on a registered observer throws InternalError and leaves
\* the list as it was, unObserve(o) on an observer not registered throws
\* InternalError (and leaves the list as it was), and the list never holds
\* an observer twice.
C26_ObserverRegistry ==
    /\ [](\A i, j \in 1..Len(observers) : observers[i] = observers[j] => i = j)
    /\ [][\A o \in Observers :
            /\ (Observe(o) /\ Registered(o)) =>
                  (RaisedInternalError(result', "observe") /\ observers' = observers)
            /\ (Observe(o) /\ ~Registered(o)) =>
                  (result'.kind = "value" /\ observers' = Append(observers, o))
            /\ (UnObserve(o) /\ ~Registered(o)) =>
                  (RaisedInternalError(result', "unObserve") /\ observers' = observers)
            /\ (UnObserve(o) /\ Registered(o)) =>
                  (result'.kind = "value" /\ ~\E i \in 1..Len(observers') : observers'[i] = o)
         ]_vars

C26_Witness ==
    /\ RaisedInternalError(result, "observe")
    /\ result.message = "[InternalError] Observer already registered"
    /\ Len(observers) = 2

C26_WitnessUnObserve ==
    /\ RaisedInternalError(result, "unObserve")
    /\ Len(observers) = 1

\* C27: when the transport call of a page(n) call fails, the call ends with
\* the transport's error and currentPage is what it was; currentPage changes
\* only in the step that receives a response, and then to that call's n.
C27_FailureKeepsCurrentPage ==
    [][/\ \A c \in 1..Len(calls) :
             (calls[c].pc = "sent" /\ calls'[c].pc = "failed") =>
                 /\ paginator'.currentPage = paginator.currentPage
                 /\ calls'[c].err = "InternalError"
                 /\ last' = Outcome("page", "InternalError")
       /\ paginator'.currentPage # paginator.currentPage =>
             \E c \in 1..Len(calls) :
                 /\ calls[c].pc = "sent"
                 /\ calls'[c].pc = "done"
                 /\ paginator'.currentPage = calls[c].page
      ]_vars

C27_Witness ==
    /\ Len(calls) = 2
    /\ calls[1] = Call("done", 1, "none")
    /\ calls[2] = Call("failed", 2, "InternalError")
    /\ Len(sent) = 2
    /\ paginator.currentPage = 1

\* C28: when page() calls overlap, each call's request is built from its own
\* copy of the paginator's statement and carries its own page number and no
\* other call's: the requests of equal pages are identical, every request
\* ends in its own page number after the page size, and all have one path
\* shape. currentPage changes only when a response is received, to the page
\* of the call that response belongs to, so its final value is the page of
\* the response that completes last.
C28_OverlappingCalls ==
    /\ [](\A i, j \in 1..Len(sent) :
             /\ \E tail \in {"/" \o NumToStr(paginator.size) \o "/" \o NumToStr(ops[i].page)} :
                   StartsAt(sent[i].url, tail, Len(sent[i].url) - Len(tail) + 1)
             /\ Len(sent[i].url) - Len(NumToStr(ops[i].page))
                   = Len(sent[j].url) - Len(NumToStr(ops[j].page))
             /\ ops[i].page = ops[j].page => sent[i] = sent[j])
    /\ [][/\ \A c \in 1..Len(calls) :
                (calls[c].pc = "sent" /\ calls'[c].pc = "done") =>
                    paginator'.currentPage = calls[c].page
          /\ paginator'.currentPage # paginator.currentPage =>
                \E c \in 1..Len(calls) : calls[c].pc = "sent" /\ calls'[c].pc = "done"
         ]_vars

\* two calls in flight at once, answered in the reverse of their order
C28_Witness ==
    /\ Len(calls) = 2
    /\ calls[1] = Call("done", 1, "none")
    /\ calls[2] = Call("done", 2, "none")
    /\ Len(sent) = 2
    /\ sent[1] # sent[2]
    /\ paginator.currentPage = 1

\* C29: the connector of a dispatcher that started listening and has not
\* called close() is open and is the cached connector of its URL, whatever
\* other dispatchers closed and whatever timers fired.
C29_SharedConnectorStaysOpen ==
    \A d \in Dispatchers :
        (dispatchers[d].listening /\ ~dispatchers[d].closed) =>
            /\ connectors[dispatchers[d].connector].es
            /\ cache[listeningUrl(d)] = dispatchers[d].connector

\* the open connections of a URL
OpenConnections(u) == {c \in 1..Len(connectors) : connectors[c].es /\ connectors[c].url = u}

\* the positions in emitted of the messages a dispatcher's onEvent was called with
DeliveredTo(d) == {delivered[d][k] : k \in 1..Len(delivered[d])}

\* C30: a URL has at most one open connection, which is the cached connector
\* every dispatcher listening on the URL holds, and every well-formed event
\* received on a URL reaches the onEvent of every dispatcher that was
\* listening on that URL when it arrived, late joiners included.
C30_OneConnectionEveryListener ==
    /\ \A u \in Urls :
          /\ Cardinality(OpenConnections(u)) <= 1
          /\ \A c \in OpenConnections(u) : cache[u] = c
    /\ \A i \in 1..Len(emitted) :
          parseReceivedEvent(emitted[i].raw) # Null =>
              \A d \in emitted[i].listening : i \in DeliveredTo(d)

====
